---- MODULE Spec2Model ----
(***************************************************************************)
(* Model of the IvyFocus audio engine (class AudioEngine, second listing   *)
(* of src/lib/context/AudioContext.tsx, lines 689-1296).                   *)
(*                                                                         *)
(* The engine's private fields are the variables.  Every public method is  *)
(* one action; the method body is an operator over a "call context" c that *)
(* threads the engine fields (c.e) through the statements in source order  *)
(* and records every platform call of the current control call in c.log.   *)
(* Frequencies are in Hz, volumes and gains in percent (0.5 is 50).        *)
(*                                                                         *)
(* The React component AudioProvider (first listing, lines 60-243), which  *)
(* drives the engine and keeps the settings in AsyncStorage, is modelled   *)
(* by one action per callback over the same engine operators.              *)
(***************************************************************************)
EXTENDS Integers, Sequences, FiniteSets, TLC

\* ------------------------------------------------------------------------
\* Types (src/lib/context/AudioContext.tsx:259-283)
\* ------------------------------------------------------------------------
NoiseColor == {"white", "pink", "brown", "green"}
NaturalSound == {"none", "wind", "rain", "ocean"}

\* Values the control calls are exercised with: the first Max... entries of
\* each list (the defaults of the engine state first), one volume per gain.
MaxCarriers == 2
MaxBeats == 2
MaxSounds == 3

FirstOf(list, n) ==
    {list[i] : i \in 1..(IF n < Len(list) THEN n ELSE Len(list))}

Carriers == FirstOf(<<400, 200, 600>>, MaxCarriers)
Beats == FirstOf(<<10, 16, 4>>, MaxBeats)
Volumes == {50}
Colors == {"white", "pink"}
Sounds == FirstOf(<<"none", "wind", "rain", "ocean">>, MaxSounds)
NoiseVolumes == {50}
NaturalSoundVolumes == {80}

\* An absent key of a Partial<...> argument.
Undef == -1
Undefined == "undefined"

BinauralParams == [carrier : Carriers, beat : Beats, volume : Volumes]
PartialBinauralParams ==
    [carrier : Carriers \cup {Undef}, beat : Beats \cup {Undef},
     volume : Volumes \cup {Undef}]
NoiseParams ==
    [color : Colors, volume : NoiseVolumes, naturalSound : Sounds,
     naturalSoundVolume : NaturalSoundVolumes]
PartialNoiseParams ==
    [color : Colors \cup {Undefined}, volume : NoiseVolumes \cup {Undef},
     naturalSound : Sounds \cup {Undefined},
     naturalSoundVolume : NaturalSoundVolumes \cup {Undef}]

\* ------------------------------------------------------------------------
\* Platform objects (react-native-audio-api nodes and buffers)
\* ------------------------------------------------------------------------
NullNode == [type |-> "null"]
NewGainNode == [type |-> "gain", gain |-> 100, outs |-> {}]
NewStereoPanner == [type |-> "panner", pan |-> 0, outs |-> {}]
NewOscillator ==
    [type |-> "oscillator", wave |-> "sine", frequency |-> 440,
     started |-> FALSE, stopped |-> FALSE, outs |-> {}]
NoBuffer == [key |-> "null", gen |-> 0]
NewBufferSource ==
    [type |-> "bufferSource", buffer |-> NoBuffer, loop |-> FALSE,
     started |-> FALSE, stopped |-> FALSE, outs |-> {}]

IsSource(n) == n.type \in {"oscillator", "bufferSource"}
Running(n) == IsSource(n) /\ n.started /\ ~n.stopped
Connected(n) == n # NullNode /\ n.outs # {}
Live(n) == n # NullNode /\ (Running(n) \/ Connected(n))

BinauralRoles ==
    {"leftOscillator", "rightOscillator", "leftPanner", "rightPanner",
     "binauralGain"}
TextureRoles ==
    {"naturalSoundSource", "naturalSoundGain", "naturalSoundFilter",
     "naturalSoundLFO", "naturalSoundLFOGain"}
NoiseRoles == {"noiseSource", "noiseGain", "mixer"} \cup TextureRoles
Roles == BinauralRoles \cup NoiseRoles
SourceRoles ==
    {"leftOscillator", "rightOscillator", "noiseSource",
     "naturalSoundSource", "naturalSoundLFO"}

VARIABLES
    audioContext,
    leftOscillator, rightOscillator, binauralGain, leftPanner, rightPanner,
    noiseSource, noiseGain, noiseBuffers,
    naturalSoundSource, naturalSoundGain, naturalSoundFilter,
    naturalSoundLFO, naturalSoundLFOGain, naturalSoundBuffers,
    mixer,
    state,
    synthCalls,     \* number of buffer syntheses run so far, per key
    contexts,       \* number of AudioContext objects constructed so far
    orphans,        \* roles whose reference was lost while the node was live
    log,            \* graph operations of the last control call, in order
    lastCall,       \* name of the last control call
    threw,          \* whether the last control call ended by an exception
    sampleRate,     \* audioContext.sampleRate, in samples per second
    pattern,        \* the values Math.random() returns, repeated in a cycle
    pos,            \* number of Math.random() calls made so far, in the cycle
    generator,      \* the channel generator that ran last
    raw,            \* the channel before the generator's last filtering pass
    filtered,       \* the channel after that pass
    channel,        \* the channel as the generator left it
    provider,       \* the useState cells of AudioProvider, latest values
    captured,       \* mode and isPlaying as the setters of an older render see
    storage,        \* AsyncStorage: the item stored under each setting
    installed,      \* what AsyncStorage held when the provider was mounted
    loading,        \* loadSettings has been started and has not finished
    strictParams,   \* the platform throws on an undefined AudioParam value
    called,         \* the engine method the last provider step called
    stale,          \* some callback ran on values older than the cells
    shared,         \* the params objects of state that a caller holds too
    snapshot        \* the object the last getState returned, as it is now

vars ==
    <<audioContext, leftOscillator, rightOscillator, binauralGain,
      leftPanner, rightPanner, noiseSource, noiseGain, noiseBuffers,
      naturalSoundSource, naturalSoundGain, naturalSoundFilter,
      naturalSoundLFO, naturalSoundLFOGain, naturalSoundBuffers, mixer,
      state, synthCalls, contexts, orphans, log, lastCall, threw,
      sampleRate, pattern, pos, generator, raw, filtered, channel,
      provider, captured, storage, installed, loading, strictParams,
      called, stale, shared, snapshot>>

\* The fields of the engine and what is observed of them across calls.
engineVars ==
    <<audioContext, leftOscillator, rightOscillator, binauralGain,
      leftPanner, rightPanner, noiseSource, noiseGain, noiseBuffers,
      naturalSoundSource, naturalSoundGain, naturalSoundFilter,
      naturalSoundLFO, naturalSoundLFOGain, naturalSoundBuffers, mixer,
      state, synthCalls, contexts, orphans>>

bufferVars == <<sampleRate, pattern, pos, generator, raw, filtered, channel>>

providerVars ==
    <<provider, captured, storage, installed, loading, strictParams, called,
      stale>>

aliasVars == <<shared, snapshot>>

\* The engine object as one record, field names as in the class.
Eng ==
    [audioContext |-> audioContext,
     leftOscillator |-> leftOscillator, rightOscillator |-> rightOscillator,
     binauralGain |-> binauralGain,
     leftPanner |-> leftPanner, rightPanner |-> rightPanner,
     noiseSource |-> noiseSource, noiseGain |-> noiseGain,
     noiseBuffers |-> noiseBuffers,
     naturalSoundSource |-> naturalSoundSource,
     naturalSoundGain |-> naturalSoundGain,
     naturalSoundFilter |-> naturalSoundFilter,
     naturalSoundLFO |-> naturalSoundLFO,
     naturalSoundLFOGain |-> naturalSoundLFOGain,
     naturalSoundBuffers |-> naturalSoundBuffers,
     mixer |-> mixer,
     state |-> state,
     synthCalls |-> synthCalls, contexts |-> contexts, orphans |-> orphans]

\* Context of one control call: engine fields, the platform calls made so
\* far, the number of platform calls left before one fails (0: none fails),
\* whether an exception is propagating, the value last returned, and
\* whether the platform rejects an undefined AudioParam value by throwing.
Ctx(fail) ==
    [e |-> Eng, log |-> <<>>, fail |-> fail, thrown |-> FALSE,
     ret |-> NoBuffer, strict |-> FALSE]

Ev(op, node, arg) == [op |-> op, node |-> node, arg |-> arg]

\* A call into the platform audio stack: skipped while an exception
\* propagates, throws when it is the failing call, else takes effect.
Plat(c, ev, e2) ==
    IF c.thrown THEN c
    ELSE IF c.fail = 1 THEN [c EXCEPT !.thrown = TRUE, !.fail = 0]
    ELSE [c EXCEPT !.e = e2, !.log = Append(@, ev),
                   !.fail = IF @ = 0 THEN 0 ELSE @ - 1]

\* A plain assignment of the engine: skipped while an exception propagates.
Do(c, ev, e2) ==
    IF c.thrown THEN c
    ELSE [c EXCEPT !.e = e2, !.log = Append(@, ev)]

\* this.<role> = this.audioContext.create...()
Create(c, role, node) ==
    Plat(c, Ev("create", role, node.type),
         [c.e EXCEPT ![role] = node,
                     !.orphans = IF Live(c.e[role]) THEN @ \cup {role}
                                 ELSE @])

\* this.<role>.<param>.value = v  (an AudioParam or a plain property)
SetParam(c, role, param, v) ==
    IF c.thrown THEN c
    ELSE IF c.strict /\ param # "loop" /\ v = Undef
    THEN [c EXCEPT !.thrown = TRUE]
    ELSE [c EXCEPT !.e[role][param] = v]

\* this.<role>.buffer = buffer
SetBuffer(c, role, buffer) ==
    Do(c, Ev("buffer", role, buffer.key),
       [c.e EXCEPT ![role].buffer = buffer])

\* this.<role>.connect(<dest>)
Connect(c, role, dest) ==
    Plat(c, Ev("connect", role, dest),
         [c.e EXCEPT ![role].outs = @ \cup {dest}])

\* this.<role>.start()
Start(c, role) ==
    Plat(c, Ev("start", role, ""), [c.e EXCEPT ![role].started = TRUE])

\* this.<role>.stop(): the platform rejects it on a source never started
Stop(c, role) ==
    IF c.thrown THEN c
    ELSE IF ~c.e[role].started THEN [c EXCEPT !.thrown = TRUE]
    ELSE Do(c, Ev("stop", role, ""), [c.e EXCEPT ![role].stopped = TRUE])

\* this.<role>.disconnect()
Disconnect(c, role) ==
    Do(c, Ev("disconnect", role, ""), [c.e EXCEPT ![role].outs = {}])

\* this.<role> = null
Clear(c, role) ==
    Do(c, Ev("clear", role, ""),
       [c.e EXCEPT ![role] = NullNode,
                   !.orphans = IF Live(c.e[role]) THEN @ \cup {role}
                               ELSE @])

\* Mutation: a source is disconnected while it still runs and stopped after.
ReleaseSource_DisconnectFirst(c, role) ==
    IF c.e[role] # NullNode
    THEN Clear(Stop(Disconnect(c, role), role), role)
    ELSE c

\* if (this.<role>) { stop(); disconnect(); this.<role> = null }
ReleaseSource(c, role) ==
    IF c.e[role] # NullNode
    THEN Clear(Disconnect(Stop(c, role), role), role)
    ELSE c

\* Mutation: a gain, panner or mixer is dropped without being disconnected.
ReleaseNode_NoDisconnect(c, role) ==
    IF c.e[role] # NullNode
    THEN Clear(c, role)
    ELSE c

\* if (this.<role>) { disconnect(); this.<role> = null }
ReleaseNode(c, role) ==
    IF c.e[role] # NullNode
    THEN Clear(Disconnect(c, role), role)
    ELSE c

\* this.state.<field> = v
SetState(c, field, v) ==
    IF c.thrown THEN c
    ELSE IF field = "mode"
    THEN Do(c, Ev("mode", "state", v), [c.e EXCEPT !.state[field] = v])
    ELSE [c EXCEPT !.e.state[field] = v]

\* ------------------------------------------------------------------------
\* AudioEngine methods
\* ------------------------------------------------------------------------
\* Mutation: a context is constructed on every start.
initAudioContext_AlwaysCreates(c) ==
    Plat(c, Ev("new", "audioContext", ""),
         [c.e EXCEPT !.audioContext = "ctx", !.contexts = @ + 1])

\* Mutation: a failure to create the context is caught and only reported.
initAudioContext_Swallows(c) ==
    IF c.e.audioContext = "null"
    THEN LET c1 == Plat(c, Ev("new", "audioContext", ""),
                        [c.e EXCEPT !.audioContext = "ctx",
                                    !.contexts = @ + 1])
         IN  IF c1.thrown /\ ~c.thrown
             THEN [c1 EXCEPT !.thrown = FALSE]
             ELSE c1
    ELSE c

initAudioContext(c) ==
    IF c.e.audioContext = "null"
    THEN Plat(c, Ev("new", "audioContext", ""),
              [c.e EXCEPT !.audioContext = "ctx", !.contexts = @ + 1])
    ELSE c

\* Mutation: stopBinaural clears the mode whatever it was.
stopBinaural_AlwaysIdles(c) ==
    LET c1 == ReleaseSource(c, "leftOscillator")
        c2 == ReleaseSource(c1, "rightOscillator")
        c3 == ReleaseNode(c2, "leftPanner")
        c4 == ReleaseNode(c3, "rightPanner")
        c5 == ReleaseNode(c4, "binauralGain")
    IN  SetState(SetState(c5, "mode", "null"), "isPlaying", FALSE)

\* Mutation: stopBinaural releases the oscillators and panners only.
stopBinaural_KeepsGain(c) ==
    LET c1 == ReleaseSource(c, "leftOscillator")
        c2 == ReleaseSource(c1, "rightOscillator")
        c3 == ReleaseNode(c2, "leftPanner")
        c4 == ReleaseNode(c3, "rightPanner")
    IN  IF c4.e.state.mode = "binaural"
        THEN SetState(SetState(c4, "mode", "null"), "isPlaying", FALSE)
        ELSE c4

stopBinaural(c) ==
    LET c1 == ReleaseSource(c, "leftOscillator")
        c2 == ReleaseSource(c1, "rightOscillator")
        c3 == ReleaseNode(c2, "leftPanner")
        c4 == ReleaseNode(c3, "rightPanner")
        c5 == ReleaseNode(c4, "binauralGain")
    IN  IF c5.e.state.mode = "binaural"
        THEN SetState(SetState(c5, "mode", "null"), "isPlaying", FALSE)
        ELSE c5

\* Mutation: stopNaturalSound also releases the shared mixer.
stopNaturalSound_AlsoMixer(c) ==
    LET c1 == ReleaseSource(c, "naturalSoundSource")
        c2 == ReleaseNode(c1, "naturalSoundGain")
        c3 == ReleaseNode(c2, "naturalSoundFilter")
        c4 == ReleaseSource(c3, "naturalSoundLFO")
        c5 == ReleaseNode(c4, "naturalSoundLFOGain")
    IN  ReleaseNode(c5, "mixer")

stopNaturalSound(c) ==
    LET c1 == ReleaseSource(c, "naturalSoundSource")
        c2 == ReleaseNode(c1, "naturalSoundGain")
        c3 == ReleaseNode(c2, "naturalSoundFilter")
        c4 == ReleaseSource(c3, "naturalSoundLFO")
    IN  ReleaseNode(c4, "naturalSoundLFOGain")

\* Mutation: stopNoise clears the mode and disconnects the mixer first.
stopNoise_MixerFirst(c) ==
    LET c0 == IF c.e.state.mode = "noise"
              THEN SetState(SetState(c, "mode", "null"), "isPlaying", FALSE)
              ELSE c
        c1 == ReleaseNode(c0, "mixer")
        c2 == ReleaseSource(c1, "noiseSource")
        c3 == ReleaseNode(c2, "noiseGain")
    IN  stopNaturalSound(c3)

\* Mutation: stopNoise clears the mode and leaves isPlaying as it is.
stopNoise_KeepsPlaying(c) ==
    LET c1 == ReleaseSource(c, "noiseSource")
        c2 == ReleaseNode(c1, "noiseGain")
        c3 == stopNaturalSound(c2)
        c4 == ReleaseNode(c3, "mixer")
    IN  IF c4.e.state.mode = "noise"
        THEN SetState(c4, "mode", "null")
        ELSE c4

\* Mutation: stopNoise clears the mode whatever it was.
stopNoise_AlwaysIdles(c) ==
    LET c1 == ReleaseSource(c, "noiseSource")
        c2 == ReleaseNode(c1, "noiseGain")
        c3 == stopNaturalSound(c2)
        c4 == ReleaseNode(c3, "mixer")
    IN  SetState(SetState(c4, "mode", "null"), "isPlaying", FALSE)

\* Mutation: stopNoise leaves the natural sound layer alone.
stopNoise_KeepsTexture(c) ==
    LET c1 == ReleaseSource(c, "noiseSource")
        c2 == ReleaseNode(c1, "noiseGain")
        c4 == ReleaseNode(c2, "mixer")
    IN  IF c4.e.state.mode = "noise"
        THEN SetState(SetState(c4, "mode", "null"), "isPlaying", FALSE)
        ELSE c4

stopNoise(c) ==
    LET c1 == ReleaseSource(c, "noiseSource")
        c2 == ReleaseNode(c1, "noiseGain")
        c3 == stopNaturalSound(c2)
        c4 == ReleaseNode(c3, "mixer")
    IN  IF c4.e.state.mode = "noise"
        THEN SetState(SetState(c4, "mode", "null"), "isPlaying", FALSE)
        ELSE c4

\* Mutation: stop() forgets the noise exit path.
stop_OnlyBinaural(c) == stopBinaural(c)

stop(c) == stopNoise(stopBinaural(c))

\* startBinaural past its guard: build, wire and start the binaural graph
buildBinaural(c1, params) ==
    LET c2 == SetParam(Create(c1, "binauralGain", NewGainNode),
                       "binauralGain", "gain", params.volume)
        c3 == SetParam(Create(c2, "leftPanner", NewStereoPanner),
                       "leftPanner", "pan", -1)
        c4 == SetParam(Create(c3, "rightPanner", NewStereoPanner),
                       "rightPanner", "pan", 1)
        c5 == SetParam(Create(c4, "leftOscillator", NewOscillator),
                       "leftOscillator", "frequency", params.carrier)
        c6 == SetParam(Create(c5, "rightOscillator", NewOscillator),
                       "rightOscillator", "frequency",
                       params.carrier + params.beat)
        c7 == Connect(c6, "leftOscillator", "leftPanner")
        c8 == Connect(c7, "leftPanner", "binauralGain")
        c9 == Connect(c8, "rightOscillator", "rightPanner")
        c10 == Connect(c9, "rightPanner", "binauralGain")
        c11 == Connect(c10, "binauralGain", "destination")
        c12 == Start(Start(c11, "leftOscillator"), "rightOscillator")
    IN  SetState(SetState(SetState(c12, "mode", "binaural"),
                          "isPlaying", TRUE),
                 "binauralParams", params)

\* Mutation: startBinaural does not stop the current playback first.
startBinaural_NoStop(c, params) ==
    LET c1 == initAudioContext(c)
    IN  IF c1.e.audioContext = "null" THEN c1
        ELSE buildBinaural(c1, params)

startBinaural(c, params) ==
    LET c1 == initAudioContext(stop(c))
    IN  IF c1.e.audioContext = "null" THEN c1
        ELSE buildBinaural(c1, params)

Warn(c, what) == Do(c, Ev("warn", what, ""), c.e)

\* { ...this.state.binauralParams, ...params }
mergeBinauralParams(old, params) ==
    [carrier |-> IF params.carrier # Undef THEN params.carrier
                 ELSE old.carrier,
     beat |-> IF params.beat # Undef THEN params.beat ELSE old.beat,
     volume |-> IF params.volume # Undef THEN params.volume ELSE old.volume]

\* Mutation: a beat update adds the beat to the carrier recorded before the
\* call instead of the merged one.
applyBinauralUpdate_StaleCarrier(c, params) ==
    LET old == c.e.state.binauralParams
        newParams == mergeBinauralParams(old, params)
        c1 == IF params.carrier # Undef /\ c.e.leftOscillator # NullNode
              THEN SetParam(c, "leftOscillator", "frequency", params.carrier)
              ELSE c
        c2 == IF params.carrier # Undef /\ c1.e.rightOscillator # NullNode
              THEN SetParam(c1, "rightOscillator", "frequency",
                            params.carrier + newParams.beat)
              ELSE c1
        c3 == IF params.beat # Undef /\ c2.e.rightOscillator # NullNode
              THEN SetParam(c2, "rightOscillator", "frequency",
                            old.carrier + params.beat)
              ELSE c2
        c4 == IF params.volume # Undef /\ c3.e.binauralGain # NullNode
              THEN SetParam(c3, "binauralGain", "gain", params.volume)
              ELSE c3
    IN  SetState(c4, "binauralParams", newParams)

\* updateBinaural past its guard: set the frequencies and the gain in place
applyBinauralUpdate(c, params) ==
    LET newParams == mergeBinauralParams(c.e.state.binauralParams, params)
        c1 == IF params.carrier # Undef /\ c.e.leftOscillator # NullNode
              THEN SetParam(c, "leftOscillator", "frequency", params.carrier)
              ELSE c
        c2 == IF params.carrier # Undef /\ c1.e.rightOscillator # NullNode
              THEN SetParam(c1, "rightOscillator", "frequency",
                            params.carrier + newParams.beat)
              ELSE c1
        c3 == IF params.beat # Undef /\ c2.e.rightOscillator # NullNode
              THEN SetParam(c2, "rightOscillator", "frequency",
                            newParams.carrier + params.beat)
              ELSE c2
        c4 == IF params.volume # Undef /\ c3.e.binauralGain # NullNode
              THEN SetParam(c3, "binauralGain", "gain", params.volume)
              ELSE c3
    IN  SetState(c4, "binauralParams", newParams)

\* Mutation: an update rebuilds the binaural graph with the merged params.
updateBinaural_Restarts(c, params) ==
    IF c.e.state.mode # "binaural" \/ ~c.e.state.isPlaying
    THEN Warn(c, "Binaural mode not active")
    ELSE startBinaural(c, mergeBinauralParams(c.e.state.binauralParams,
                                              params))

updateBinaural(c, params) ==
    IF c.e.state.mode # "binaural" \/ ~c.e.state.isPlaying
    THEN Warn(c, "Binaural mode not active")
    ELSE applyBinauralUpdate(c, params)

\* throw new Error(...)
Throw(c) == IF c.thrown THEN c ELSE [c EXCEPT !.thrown = TRUE]

\* createBuffer, fill both channels with the generator of the color, return
generateNoiseBuffer(c, color) ==
    IF c.e.audioContext = "null" THEN Throw(c) ELSE
    LET c1 == Plat(c, Ev("createBuffer", color, ""), c.e)
        c2 == Do(c1, Ev("synthesize", color, ""),
                 [c1.e EXCEPT !.synthCalls[color] = @ + 1])
    IN  IF c2.thrown THEN c2
        ELSE [c2 EXCEPT !.ret = [key |-> color,
                                 gen |-> c2.e.synthCalls[color]]]

generateNaturalSoundBuffer(c, sound) ==
    IF c.e.audioContext = "null" THEN Throw(c) ELSE
    LET c1 == Plat(c, Ev("createBuffer", sound, ""), c.e)
        c2 == Do(c1, Ev("synthesize", sound, ""),
                 [c1.e EXCEPT !.synthCalls[sound] = @ + 1])
    IN  IF c2.thrown THEN c2
        ELSE [c2 EXCEPT !.ret = [key |-> sound,
                                 gen |-> c2.e.synthCalls[sound]]]

\* Mutation: the natural sound buffer is generated on every request.
getNaturalSoundBuffer_AlwaysGenerates(c, sound) ==
    LET g == generateNaturalSoundBuffer(c, sound)
    IN  Do(g, Ev("cache", sound, ""),
           [g.e EXCEPT !.naturalSoundBuffers[sound] = g.ret])

\* if (!this.naturalSoundBuffers.has(sound)) { generate; set }
getNaturalSoundBuffer(c, sound) ==
    IF c.e.naturalSoundBuffers[sound] = NoBuffer
    THEN LET g == generateNaturalSoundBuffer(c, sound)
         IN  Do(g, Ev("cache", sound, ""),
                [g.e EXCEPT !.naturalSoundBuffers[sound] = g.ret])
    ELSE c

\* Mutation: the natural sound player is started before its gain is
\* connected to the mixer.
startNaturalSound_StartsEarly(c, sound, volume) ==
    IF c.e.audioContext = "null" \/ c.e.mixer = NullNode \/ sound = "none"
    THEN c ELSE
    LET c1 == getNaturalSoundBuffer(c, sound)
        buffer == c1.e.naturalSoundBuffers[sound]
        c2 == SetParam(Create(c1, "naturalSoundGain", NewGainNode),
                       "naturalSoundGain", "gain", volume)
        c3 == Create(c2, "naturalSoundSource", NewBufferSource)
        c4 == SetParam(SetBuffer(c3, "naturalSoundSource", buffer),
                       "naturalSoundSource", "loop", TRUE)
        c5 == Connect(c4, "naturalSoundSource", "naturalSoundGain")
        c6 == Start(c5, "naturalSoundSource")
    IN  Connect(c6, "naturalSoundGain", "mixer")

startNaturalSound(c, sound, volume) ==
    IF c.e.audioContext = "null" \/ c.e.mixer = NullNode \/ sound = "none"
    THEN c ELSE
    LET c1 == getNaturalSoundBuffer(c, sound)
        buffer == c1.e.naturalSoundBuffers[sound]
        c2 == SetParam(Create(c1, "naturalSoundGain", NewGainNode),
                       "naturalSoundGain", "gain", volume)
        c3 == Create(c2, "naturalSoundSource", NewBufferSource)
        c4 == SetParam(SetBuffer(c3, "naturalSoundSource", buffer),
                       "naturalSoundSource", "loop", TRUE)
        c5 == Connect(c4, "naturalSoundSource", "naturalSoundGain")
        c6 == Connect(c5, "naturalSoundGain", "mixer")
    IN  Start(c6, "naturalSoundSource")

\* Mutation: the generated noise buffer is used but never stored in the map.
getNoiseBuffer_NoStore(c, color) ==
    IF c.e.noiseBuffers[color] = NoBuffer
    THEN generateNoiseBuffer(c, color)
    ELSE c

\* Mutation: the noise buffer is generated on every request.
getNoiseBuffer_AlwaysGenerates(c, color) ==
    LET g == generateNoiseBuffer(c, color)
    IN  Do(g, Ev("cache", color, ""),
           [g.e EXCEPT !.noiseBuffers[color] = g.ret])

\* if (!this.noiseBuffers.has(color)) { generate; set }
getNoiseBuffer(c, color) ==
    IF c.e.noiseBuffers[color] = NoBuffer
    THEN LET g == generateNoiseBuffer(c, color)
         IN  Do(g, Ev("cache", color, ""),
                [g.e EXCEPT !.noiseBuffers[color] = g.ret])
    ELSE c

\* startNoise past its guard: mixer, noise player and its gain, then the
\* natural sound layer
buildNoise(c1, params) ==
    LET c2 == Connect(SetParam(Create(c1, "mixer", NewGainNode),
                               "mixer", "gain", 100),
                      "mixer", "destination")
        c3 == getNoiseBuffer(c2, params.color)
        buffer == c3.e.noiseBuffers[params.color]
        c4 == SetParam(Create(c3, "noiseGain", NewGainNode),
                       "noiseGain", "gain", params.volume)
        c5 == Create(c4, "noiseSource", NewBufferSource)
        c6 == SetParam(SetBuffer(c5, "noiseSource", buffer),
                       "noiseSource", "loop", TRUE)
        c7 == Connect(c6, "noiseSource", "noiseGain")
        c8 == Connect(c7, "noiseGain", "mixer")
        c9 == Start(c8, "noiseSource")
        c10 == IF params.naturalSound # "none"
               THEN startNaturalSound(c9, params.naturalSound,
                                      params.naturalSoundVolume)
               ELSE c9
    IN  SetState(SetState(SetState(c10, "mode", "noise"),
                          "isPlaying", TRUE),
                 "noiseParams", params)

startNoise(c, params) ==
    LET c1 == initAudioContext(stop(c))
    IN  IF c1.e.audioContext = "null" THEN c1
        ELSE buildNoise(c1, params)

\* { ...this.state.noiseParams, ...params }
mergeNoiseParams(old, params) ==
    [color |-> IF params.color # Undefined THEN params.color ELSE old.color,
     volume |-> IF params.volume # Undef THEN params.volume ELSE old.volume,
     naturalSound |->
         IF params.naturalSound # Undefined THEN params.naturalSound
         ELSE old.naturalSound,
     naturalSoundVolume |->
         IF params.naturalSoundVolume # Undef THEN params.naturalSoundVolume
         ELSE old.naturalSoundVolume]

\* Mutation: a change from one natural sound to another assigns the new
\* buffer to the running player instead of replacing the player.
applyNoiseUpdate_SwapsBuffer(c, params, newParams) ==
    LET old == c.e.state.noiseParams
        c1 == IF params.naturalSound # Undefined
                 /\ params.naturalSound # old.naturalSound
              THEN IF params.naturalSound # "none"
                      /\ c.e.naturalSoundSource # NullNode
                   THEN LET g == getNaturalSoundBuffer(c, params.naturalSound)
                        IN  SetBuffer(g, "naturalSoundSource",
                                g.e.naturalSoundBuffers[params.naturalSound])
                   ELSE LET s == stopNaturalSound(c)
                        IN  IF params.naturalSound # "none"
                            THEN startNaturalSound(s, params.naturalSound,
                                     newParams.naturalSoundVolume)
                            ELSE s
              ELSE c
        c2 == IF params.volume # Undef /\ c1.e.noiseGain # NullNode
              THEN SetParam(c1, "noiseGain", "gain", params.volume)
              ELSE c1
        c3 == IF params.naturalSoundVolume # Undef
                 /\ c2.e.naturalSoundGain # NullNode
              THEN SetParam(c2, "naturalSoundGain", "gain",
                            params.naturalSoundVolume)
              ELSE c2
    IN  SetState(c3, "noiseParams", newParams)

\* Mutation: switching the natural sound to none leaves the layer playing.
applyNoiseUpdate_KeepsLayerOnNone(c, params, newParams) ==
    LET old == c.e.state.noiseParams
        c1 == IF params.naturalSound # Undefined
                 /\ params.naturalSound # old.naturalSound
                 /\ params.naturalSound # "none"
              THEN startNaturalSound(stopNaturalSound(c),
                                     params.naturalSound,
                                     newParams.naturalSoundVolume)
              ELSE c
        c2 == IF params.volume # Undef /\ c1.e.noiseGain # NullNode
              THEN SetParam(c1, "noiseGain", "gain", params.volume)
              ELSE c1
        c3 == IF params.naturalSoundVolume # Undef
                 /\ c2.e.naturalSoundGain # NullNode
              THEN SetParam(c2, "naturalSoundGain", "gain",
                            params.naturalSoundVolume)
              ELSE c2
    IN  SetState(c3, "noiseParams", newParams)

\* Mutation: a new natural sound volume is written to the noise gain.
applyNoiseUpdate_WrongGain(c, params, newParams) ==
    LET old == c.e.state.noiseParams
        c1 == IF params.naturalSound # Undefined
                 /\ params.naturalSound # old.naturalSound
              THEN LET s == stopNaturalSound(c)
                   IN  IF params.naturalSound # "none"
                       THEN startNaturalSound(s, params.naturalSound,
                                              newParams.naturalSoundVolume)
                       ELSE s
              ELSE c
        c2 == IF params.volume # Undef /\ c1.e.noiseGain # NullNode
              THEN SetParam(c1, "noiseGain", "gain", params.volume)
              ELSE c1
        c3 == IF params.naturalSoundVolume # Undef
                 /\ c2.e.naturalSoundGain # NullNode
              THEN SetParam(c2, "noiseGain", "gain",
                            params.naturalSoundVolume)
              ELSE c2
    IN  SetState(c3, "noiseParams", newParams)

\* updateNoise when the color is kept: restart the natural sound layer if
\* its kind changed, then set the two gains in place
applyNoiseUpdate(c, params, newParams) ==
    LET old == c.e.state.noiseParams
        c1 == IF params.naturalSound # Undefined
                 /\ params.naturalSound # old.naturalSound
              THEN LET s == stopNaturalSound(c)
                   IN  IF params.naturalSound # "none"
                       THEN startNaturalSound(s, params.naturalSound,
                                              newParams.naturalSoundVolume)
                       ELSE s
              ELSE c
        c2 == IF params.volume # Undef /\ c1.e.noiseGain # NullNode
              THEN SetParam(c1, "noiseGain", "gain", params.volume)
              ELSE c1
        c3 == IF params.naturalSoundVolume # Undef
                 /\ c2.e.naturalSoundGain # NullNode
              THEN SetParam(c2, "naturalSoundGain", "gain",
                            params.naturalSoundVolume)
              ELSE c2
    IN  SetState(c3, "noiseParams", newParams)

\* Mutation: the guard tests isPlaying only, not the mode.
updateNoise_AnyMode(c, params) ==
    IF ~c.e.state.isPlaying
    THEN Warn(c, "Noise mode not active")
    ELSE
    LET old == c.e.state.noiseParams
        newParams == mergeNoiseParams(old, params)
    IN  IF params.color # Undefined /\ params.color # old.color
        THEN startNoise(c, newParams)
        ELSE applyNoiseUpdate(c, params, newParams)

\* Mutation: a color change is handled like any other update.
updateNoise_KeepsPlayer(c, params) ==
    IF c.e.state.mode # "noise" \/ ~c.e.state.isPlaying
    THEN Warn(c, "Noise mode not active")
    ELSE applyNoiseUpdate(c, params,
                          mergeNoiseParams(c.e.state.noiseParams, params))

updateNoise(c, params) ==
    IF c.e.state.mode # "noise" \/ ~c.e.state.isPlaying
    THEN Warn(c, "Noise mode not active")
    ELSE
    LET old == c.e.state.noiseParams
        newParams == mergeNoiseParams(old, params)
    IN  IF params.color # Undefined /\ params.color # old.color
        THEN startNoise(c, newParams)
        ELSE applyNoiseUpdate(c, params, newParams)

\* Mutation: getState returns the mode and the playing flag only.
getState_DropsParams(c) ==
    [c EXCEPT !.ret = [mode |-> c.e.state.mode,
                       isPlaying |-> c.e.state.isPlaying]]

\* return { ...this.state }
getState(c) ==
    [c EXCEPT !.ret = [mode |-> c.e.state.mode,
                       isPlaying |-> c.e.state.isPlaying,
                       binauralParams |-> c.e.state.binauralParams,
                       noiseParams |-> c.e.state.noiseParams]]

\* ------------------------------------------------------------------------
\* AudioProvider (first listing of src/lib/context/AudioContext.tsx, lines
\* 60-243): its state cells and the settings it keeps in AsyncStorage.
\* A stored item is the sequence of the characters of the string; a color
\* or a background type, stored as it is, is a sequence of one element.
\* ------------------------------------------------------------------------
Settings ==
    {"carrier", "beat", "noiseColor", "volume", "uiDimness",
     "backgroundType"}
NumericSettings == {"carrier", "beat", "volume", "uiDimness"}

\* The initial values of the useState cells (volume and dimness in percent).
DefaultSettings ==
    [mode |-> "null", isPlaying |-> FALSE,
     carrier |-> 400, beat |-> 10, noiseColor |-> "white", volume |-> 50,
     uiDimness |-> 30, backgroundType |-> "dots", isLoaded |-> FALSE]

\* The values the user chooses with the setters, in this and in earlier
\* sessions.
ChosenSettings ==
    [carrier |-> 200, beat |-> 16, noiseColor |-> "pink", volume |-> 80,
     uiDimness |-> 70, backgroundType |-> "lava"]

\* AsyncStorage.getItem of a key that was never set: null. The loader tests
\* `if (saved)`, which null and the empty string fail alike.
NoItem == <<>>

DigitChars == <<"0", "1", "2", "3", "4", "5", "6", "7", "8", "9">>

\* value.toString() of a non-negative whole number
RECURSIVE toString(_)
toString(n) ==
    IF n < 10 THEN <<DigitChars[n + 1]>>
    ELSE Append(toString(n \div 10), DigitChars[(n % 10) + 1])

\* parseFloat of a string of digits
RECURSIVE parseFloat(_)
parseFloat(s) ==
    IF s = <<>> THEN 0
    ELSE LET d == CHOOSE i \in 0..9 : DigitChars[i + 1] = s[Len(s)]
         IN  10 * parseFloat(SubSeq(s, 1, Len(s) - 1)) + d

\* AsyncStorage.setItem(key, ...): carrier.toString(), noiseColor, ...
ToItem(k, v) == IF k \in NumericSettings THEN toString(v) ELSE <<v>>
\* parseFloat(savedCarrier), savedNoiseColor as NoiseColor, ...
FromItem(k, item) == IF k \in NumericSettings THEN parseFloat(item) ELSE item[1]

\* What an earlier session can have left in AsyncStorage: nothing, or
\* every setting as the user chose it.
InstalledItems ==
    {[k \in Settings |-> NoItem],
     [k \in Settings |-> ToItem(k, ChosenSettings[k])]}

\* The provider after its first render and its mount effects: the cells
\* hold the defaults, no save effect has written (isLoaded is false) and
\* loadSettings is waiting for its six reads.
Mounted(items, strict) ==
    /\ provider = DefaultSettings
    /\ captured = [mode |-> "null", isPlaying |-> FALSE]
    /\ storage = items
    /\ installed = items
    /\ loading = TRUE
    /\ strictParams = strict
    /\ called = [method |-> "none", mode |-> "null"]
    /\ stale = FALSE

\* ------------------------------------------------------------------------
\* State machine: one action per control call
\* ------------------------------------------------------------------------
InitEngine ==
    /\ audioContext = "null"
    /\ leftOscillator = NullNode /\ rightOscillator = NullNode
    /\ binauralGain = NullNode
    /\ leftPanner = NullNode /\ rightPanner = NullNode
    /\ noiseSource = NullNode /\ noiseGain = NullNode
    /\ noiseBuffers = [k \in NoiseColor |-> NoBuffer]
    /\ naturalSoundSource = NullNode /\ naturalSoundGain = NullNode
    /\ naturalSoundFilter = NullNode
    /\ naturalSoundLFO = NullNode /\ naturalSoundLFOGain = NullNode
    /\ naturalSoundBuffers = [k \in NaturalSound \cup {Undefined} |-> NoBuffer]
    /\ mixer = NullNode
    /\ state = [mode |-> "null", isPlaying |-> FALSE,
                binauralParams |-> [carrier |-> 400, beat |-> 10,
                                    volume |-> 50],
                noiseParams |-> [color |-> "white", volume |-> 50,
                                 naturalSound |-> "none",
                                 naturalSoundVolume |-> 80]]
    /\ synthCalls = [k \in NoiseColor \cup NaturalSound \cup {Undefined} |-> 0]
    /\ contexts = 0
    /\ orphans = {}
    /\ log = <<>>
    /\ lastCall = "new"
    /\ threw = FALSE
    /\ shared = {}
    /\ snapshot = [mode |-> "none", isPlaying |-> FALSE]

Init ==
    /\ InitEngine
    /\ sampleRate = 20
    /\ pattern = <<500>>
    /\ pos = 0
    /\ generator = "none"
    /\ raw = <<>> /\ filtered = <<>> /\ channel = <<>>
    /\ Mounted([k \in Settings |-> NoItem], FALSE)

\* The engine after the control call `name` ended in context c.
CommitFields(c, name) ==
    /\ audioContext' = c.e.audioContext
    /\ leftOscillator' = c.e.leftOscillator
    /\ rightOscillator' = c.e.rightOscillator
    /\ binauralGain' = c.e.binauralGain
    /\ leftPanner' = c.e.leftPanner
    /\ rightPanner' = c.e.rightPanner
    /\ noiseSource' = c.e.noiseSource
    /\ noiseGain' = c.e.noiseGain
    /\ noiseBuffers' = c.e.noiseBuffers
    /\ naturalSoundSource' = c.e.naturalSoundSource
    /\ naturalSoundGain' = c.e.naturalSoundGain
    /\ naturalSoundFilter' = c.e.naturalSoundFilter
    /\ naturalSoundLFO' = c.e.naturalSoundLFO
    /\ naturalSoundLFOGain' = c.e.naturalSoundLFOGain
    /\ naturalSoundBuffers' = c.e.naturalSoundBuffers
    /\ mixer' = c.e.mixer
    /\ state' = c.e.state
    /\ synthCalls' = c.e.synthCalls
    /\ contexts' = c.e.contexts
    /\ orphans' = c.e.orphans
    /\ log' = c.log
    /\ lastCall' = name
    /\ threw' = c.thrown

\* A control call whose caller keeps no reference to an object it passes to
\* the engine or gets from it.
CommitEngine(c, name) ==
    CommitFields(c, name) /\ UNCHANGED <<bufferVars, aliasVars>>

\* A control call made on the engine directly.
Commit(c, name) == CommitEngine(c, name) /\ UNCHANGED providerVars

StartBinaural(p) == Commit(startBinaural(Ctx(0), p), "startBinaural")
UpdateBinaural(p) == Commit(updateBinaural(Ctx(0), p), "updateBinaural")
StopBinaural == Commit(stopBinaural(Ctx(0)), "stopBinaural")
StartNoise(p) == Commit(startNoise(Ctx(0), p), "startNoise")
UpdateNoise(p) == Commit(updateNoise(Ctx(0), p), "updateNoise")
StopNoise == Commit(stopNoise(Ctx(0)), "stopNoise")
StopAll == Commit(stop(Ctx(0)), "stop")
GetState == Commit(getState(Ctx(0)), "getState")

Next ==
    \/ \E p \in BinauralParams : StartBinaural(p)
    \/ \E p \in PartialBinauralParams : UpdateBinaural(p)
    \/ StopBinaural
    \/ \E p \in NoiseParams : StartNoise(p)
    \/ \E p \in PartialNoiseParams : UpdateNoise(p)
    \/ StopNoise
    \/ StopAll
    \/ GetState

Spec == Init /\ [][Next]_vars

\* ------------------------------------------------------------------------
\* The same calls with a choice of volumes, for one carrier and one beat.
\* ------------------------------------------------------------------------
VolBinauralParams == [carrier : {400}, beat : {10}, volume : {50, 70}]
VolPartialBinauralParams ==
    [carrier : {Undef}, beat : {Undef, 16}, volume : {Undef, 50, 70}]
VolNoiseParams ==
    [color : {"white"}, volume : {50, 70}, naturalSound : {"none", "wind"},
     naturalSoundVolume : {80, 30}]
VolPartialNoiseParams ==
    [color : {Undefined, "white", "pink"}, volume : {Undef, 50, 70},
     naturalSound : {Undefined, "none", "wind"},
     naturalSoundVolume : {Undef, 80, 30}]

NextVolume ==
    \/ \E p \in VolBinauralParams : StartBinaural(p)
    \/ \E p \in VolPartialBinauralParams : UpdateBinaural(p)
    \/ StopBinaural
    \/ \E p \in VolNoiseParams : StartNoise(p)
    \/ \E p \in VolPartialNoiseParams : UpdateNoise(p)
    \/ StopNoise
    \/ StopAll
    \/ GetState

SpecVolume == Init /\ [][NextVolume]_vars

\* ------------------------------------------------------------------------
\* The same calls when one call into the platform may fail: the f-th
\* creation, connection or start of a control call throws (f = 0: none).
\* No method catches, so the exception ends the control call where it is.
\* ------------------------------------------------------------------------
MaxFail == 15
Fails == 0..MaxFail
FailBinauralParams == {[carrier |-> 400, beat |-> 10, volume |-> 50]}
FailPartialBinauralParams == {[carrier |-> 200, beat |-> Undef,
                               volume |-> Undef]}
FailNoiseParams ==
    [color : {"white"}, volume : {50}, naturalSound : {"none", "wind"},
     naturalSoundVolume : {80}]
FailPartialNoiseParams ==
    {[color |-> "pink", volume |-> Undef, naturalSound |-> Undefined,
      naturalSoundVolume |-> Undef],
     [color |-> Undefined, volume |-> Undef, naturalSound |-> "wind",
      naturalSoundVolume |-> Undef]}

FailStartBinaural(p, f) ==
    Commit(startBinaural(Ctx(f), p), "startBinaural")
FailStartNoise(p, f) == Commit(startNoise(Ctx(f), p), "startNoise")
FailUpdateNoise(p, f) == Commit(updateNoise(Ctx(f), p), "updateNoise")

NextFail ==
    \/ \E p \in FailBinauralParams, f \in Fails : FailStartBinaural(p, f)
    \/ \E p \in FailPartialBinauralParams : UpdateBinaural(p)
    \/ StopBinaural
    \/ \E p \in FailNoiseParams, f \in Fails : FailStartNoise(p, f)
    \/ \E p \in FailPartialNoiseParams, f \in Fails : FailUpdateNoise(p, f)
    \/ StopNoise
    \/ StopAll
    \/ GetState

SpecFail == Init /\ [][NextFail]_vars

\* ------------------------------------------------------------------------
\* Properties
\* ------------------------------------------------------------------------
\* ------------------------------------------------------------------------
\* Channel generators. Samples are fixed-point numbers, Unit standing for
\* 1.0; factors are written in ten-thousandths; a channel of n samples is a
\* sequence whose element i + 1 is channel[i] of the code.
\* ------------------------------------------------------------------------
Unit == 1000
Mul(a, factor) == (a * factor) \div 10000

SampleRates == {2, 10, 20}
RandomValues == {0, 500, 999}
Patterns ==
    {<<a>> : a \in RandomValues}
        \cup {<<a, b>> : a \in RandomValues, b \in RandomValues}

\* The value of the k-th call of Math.random() from now, times Unit.
Random(k) == pattern[((pos + k) % Len(pattern)) + 1]
\* Math.random() * 2 - 1
White(k) == 2 * Random(k) - Unit

\* Math.sin of an angle in degrees, times Unit (Bhaskara's approximation).
HalfSine(x) == (4000 * x * (180 - x)) \div (40500 - x * (180 - x))
Sin(deg) ==
    LET d == deg % 360
    IN  IF d <= 180 THEN HalfSine(d) ELSE 0 - HalfSine(d - 180)

\* Math.max(lo, Math.min(hi, x))
Clamp(lo, hi, x) == IF x < lo THEN lo ELSE IF x > hi THEN hi ELSE x

\* generateWhiteNoise: n draws
generateWhiteNoise(n) == [i \in 1..n |-> White(i - 1)]

\* One iteration of the pink loop: the filter state b after the draw white
\* and the sample written.
PinkStep(b, white) ==
    LET b0 == Mul(b[1], 9989) + Mul(white, 555)
        b1 == Mul(b[2], 9933) + Mul(white, 751)
        b2 == Mul(b[3], 9690) + Mul(white, 1539)
        b3 == Mul(b[4], 8665) + Mul(white, 3105)
        b4 == Mul(b[5], 5500) + Mul(white, 5330)
        b5 == Mul(b[6], 0 - 7616) - Mul(white, 169)
        pink == b0 + b1 + b2 + b3 + b4 + b5 + b[7] + Mul(white, 5362)
    IN  [b |-> <<b0, b1, b2, b3, b4, b5, Mul(white, 1159)>>,
         out |-> Mul(pink, 1100)]

\* The loops below run their iterations lo .. hi - 1 in order; a range of
\* more than one iteration is run as one half followed by the other, the
\* first half being complete (its channel has a length) when the second
\* begins.
RECURSIVE PinkLoop(_, _, _)
PinkLoop(acc, lo, hi) ==
    IF hi <= lo THEN acc
    ELSE IF hi = lo + 1
    THEN LET s == PinkStep(acc.b, White(lo))
         IN  [ch |-> Append(acc.ch, s.out), b |-> s.b]
    ELSE LET mid == (lo + hi) \div 2
             half == PinkLoop(acc, lo, mid)
         IN  IF Len(half.ch) >= 0 THEN PinkLoop(half, mid, hi) ELSE half

\* generatePinkNoise: n draws through Paul Kellet's filter
generatePinkNoise(n) ==
    PinkLoop([ch |-> <<>>, b |-> <<0, 0, 0, 0, 0, 0, 0>>], 0, n).ch

RECURSIVE BrownLoop(_, _, _)
BrownLoop(acc, lo, hi) ==
    IF hi <= lo THEN acc
    ELSE IF hi = lo + 1
    THEN LET out == (100 * acc.lastOut + 2 * White(lo)) \div 102
         IN  [ch |-> Append(acc.ch, Mul(out, 35000)), lastOut |-> out]
    ELSE LET mid == (lo + hi) \div 2
             half == BrownLoop(acc, lo, mid)
         IN  IF Len(half.ch) >= 0 THEN BrownLoop(half, mid, hi) ELSE half

\* generateBrownNoise: leaky integration of n draws, scaled by 3.5
generateBrownNoise(n) == BrownLoop([ch |-> <<>>, lastOut |-> 0], 0, n).ch

\* for (i = 1; i < length - 1; i++) channel[i] = (channel[i - 1]
\*     + channel[i] + channel[i + 1]) / 3, in place
RECURSIVE SmoothLoop(_, _, _)
SmoothLoop(ch, lo, hi) ==
    IF hi <= lo THEN ch
    ELSE IF hi = lo + 1
    THEN [ch EXCEPT ![lo + 1] = (ch[lo] + ch[lo + 1] + ch[lo + 2]) \div 3]
    ELSE LET mid == (lo + hi) \div 2
             half == SmoothLoop(ch, lo, mid)
         IN  IF Len(half) >= 0 THEN SmoothLoop(half, mid, hi) ELSE half

\* generateGreenNoise: pink noise, then the smoothing loop
generateGreenNoise(n) == SmoothLoop(generatePinkNoise(n), 1, n - 1)

\* Frequencies of the modulating sinusoids, in thousandths of a hertz, and
\* the length in seconds that the natural sound generators assume.
GustFreq == 150
SwellFreq == 125
WaveFreq == 250
RippleFreq == 500
RipplePhase == 29
BufferSeconds == 4

\* 2 * Math.PI * freq * time in degrees, at time = i / (n / 4)
PhaseDegrees(freq, i, n) == (360 * freq * BufferSeconds * i) \div (Unit * n)

\* 0.3 + 0.7 * Math.sin(2 * Math.PI * gustFreq * time) at sample i of n
gustMod(i, n) == 300 + Mul(Sin(PhaseDegrees(GustFreq, i, n)), 7000)

RECURSIVE WindLoop(_, _, _, _)
WindLoop(ch, lo, hi, n) ==
    IF hi <= lo THEN ch
    ELSE IF hi = lo + 1
    THEN LET mixed == IF lo > 0
                      THEN Mul(White(lo), 3000) + Mul(ch[lo], 7000)
                      ELSE White(lo)
         IN  Append(ch, Mul(Mul(mixed, gustMod(lo, n) * 10), 12000))
    ELSE LET mid == (lo + hi) \div 2
             half == WindLoop(ch, lo, mid, n)
         IN  IF Len(half) >= 0 THEN WindLoop(half, mid, hi, n) ELSE half

\* generateWindSound: low-passed draws under a slow gust envelope
generateWindSound(n) == WindLoop(<<>>, 0, n, n)

\* for (i = length - 1; i > 0; i--) channel[i] = channel[i]
\*     - channel[i - 1] * 0.95, in place: iterations hi - 1 down to lo
RECURSIVE HighPassLoop(_, _, _)
HighPassLoop(ch, lo, hi) ==
    IF hi <= lo THEN ch
    ELSE IF hi = lo + 1
    THEN [ch EXCEPT ![lo + 1] = ch[lo + 1] - Mul(ch[lo], 9500)]
    ELSE LET mid == (lo + hi) \div 2
             half == HighPassLoop(ch, mid, hi)
         IN  IF Len(half) >= 0 THEN HighPassLoop(half, lo, mid) ELSE half

RECURSIVE HighPassUpLoop(_, _, _)
HighPassUpLoop(ch, lo, hi) ==
    IF hi <= lo THEN ch
    ELSE IF hi = lo + 1
    THEN [ch EXCEPT ![lo + 1] = ch[lo + 1] - Mul(ch[lo], 9500)]
    ELSE LET mid == (lo + hi) \div 2
             half == HighPassUpLoop(ch, lo, mid)
         IN  IF Len(half) >= 0 THEN HighPassUpLoop(half, mid, hi) ELSE half

\* Mutation: the high-pass loop runs from the first sample to the last.
highPass_Forward(ch) == HighPassUpLoop(ch, 1, Len(ch))

\* the high-pass loop of generateRainSound over a whole channel
highPass(ch) == HighPassLoop(ch, 1, Len(ch))

\* Iterations lo .. hi - 1 of the inner loop of a droplet burst that begins
\* at sample i: a draw of decaying amplitude is added to sample i + j; k
\* counts the draws.
RECURSIVE BurstLoop(_, _, _, _)
BurstLoop(acc, i, lo, hi) ==
    IF hi <= lo THEN acc
    ELSE IF hi = lo + 1
    THEN [ch |-> [acc.ch EXCEPT ![i + lo + 1] =
                     @ + Mul(Mul(White(acc.k), acc.envelope * 10), 8000)],
          k |-> acc.k + 1,
          envelope |-> Mul(acc.envelope, 9048)]
    ELSE LET mid == (lo + hi) \div 2
             half == BurstLoop(acc, i, lo, mid)
         IN  IF Len(half.ch) >= 0 THEN BurstLoop(half, i, mid, hi) ELSE half

\* One iteration of the droplet loop: with probability dropletDensity a
\* burst of floor(random * 50 + 20) samples, cut at the end of the channel.
DropletStep(acc, i) ==
    IF Random(acc.k) < 40
    THEN LET burstLength == ((Random(acc.k + 1) * 50) \div Unit) + 20
             last == IF i + burstLength < Len(acc.ch) THEN burstLength
                     ELSE Len(acc.ch) - i
             b == BurstLoop([ch |-> acc.ch, k |-> acc.k + 2,
                             envelope |-> Unit], i, 0, last)
         IN  [ch |-> b.ch, k |-> b.k]
    ELSE [ch |-> acc.ch, k |-> acc.k + 1]

RECURSIVE DropletLoop(_, _, _)
DropletLoop(acc, lo, hi) ==
    IF hi <= lo THEN acc
    ELSE IF hi = lo + 1 THEN DropletStep(acc, lo)
    ELSE LET mid == (lo + hi) \div 2
             half == DropletLoop(acc, lo, mid)
         IN  IF Len(half.ch) >= 0 THEN DropletLoop(half, mid, hi) ELSE half

\* generateRainSound: the white draws, the channel after the high-pass,
\* and the channel with the scaled bed and the droplets, with the number of
\* draws made.
generateRainSound(n) ==
    LET x == generateWhiteNoise(n)
        y == highPass(x)
        bed == [i \in 1..n |-> Mul(y[i], 5000)]
        d == DropletLoop([ch |-> bed, k |-> n], 0, n)
    IN  [raw |-> x, filtered |-> y, channel |-> d.ch, draws |-> d.k]

RECURSIVE WaveLoop(_, _, _, _)
WaveLoop(ch, lo, hi, n) ==
    IF hi <= lo THEN ch
    ELSE IF hi = lo + 1
    THEN LET slowSwell == Mul(Sin(PhaseDegrees(SwellFreq, lo, n)), 1500)
             mainWave == Mul(Sin(PhaseDegrees(WaveFreq, lo, n)), 2500)
             ripples == Mul(Sin(PhaseDegrees(RippleFreq, lo, n)
                                + RipplePhase), 1000)
             waveMod == 500 + Mul(slowSwell + mainWave + ripples, 5000)
             clampedMod == Clamp(400, 1000, waveMod)
         IN  [ch EXCEPT ![lo + 1] = Mul(Mul(@, clampedMod * 10), 9000)]
    ELSE LET mid == (lo + hi) \div 2
             half == WaveLoop(ch, lo, mid, n)
         IN  IF Len(half) >= 0 THEN WaveLoop(half, mid, hi, n) ELSE half

\* Math.floor(channel.length * 0.05)
crossfadeSamples(n) == (n * 5) \div 100

\* the two crossfade loops of generateOceanSound: sample i is scaled by
\* i / crossfadeSamples at the start and by (n - i) / crossfadeSamples at
\* the end, the end loop reading what the start loop wrote
crossfade(ch) ==
    LET n == Len(ch)
        cf == crossfadeSamples(n)
        in == [i \in 1..n |-> IF i - 1 < cf THEN (ch[i] * (i - 1)) \div cf
                              ELSE ch[i]]
    IN  [i \in 1..n |-> IF i - 1 >= n - cf
                        THEN (in[i] * (n - (i - 1))) \div cf
                        ELSE in[i]]

\* generateOceanSound: brown noise under the sum of three waves, then the
\* crossfade; the channel before and after the crossfade
generateOceanSound(n) ==
    LET modulated == WaveLoop(generateBrownNoise(n), 0, n, n)
    IN  [raw |-> modulated, channel |-> crossfade(modulated)]

\* The channels of one buffer are filled one after the other; the actions
\* below fill the first channel of a new buffer: 2 seconds of samples for a
\* noise color, 4 seconds for a natural sound.
NoiseLength == 2 * sampleRate
NaturalSoundLength == 4 * sampleRate

Generated(name, r, f, ch, draws) ==
    /\ generator' = name
    /\ raw' = r /\ filtered' = f /\ channel' = ch
    /\ pos' = (pos + draws) % Len(pattern)
    /\ UNCHANGED <<sampleRate, pattern>>
    /\ UNCHANGED <<engineVars, log, lastCall, threw>>
    /\ UNCHANGED <<providerVars, aliasVars>>

GenerateWhiteNoise ==
    LET ch == generateWhiteNoise(NoiseLength)
    IN  Generated("white", ch, ch, ch, NoiseLength)
GeneratePinkNoise ==
    LET ch == generatePinkNoise(NoiseLength)
    IN  Generated("pink", ch, ch, ch, NoiseLength)
GenerateBrownNoise ==
    LET ch == generateBrownNoise(NoiseLength)
    IN  Generated("brown", ch, ch, ch, NoiseLength)
GenerateGreenNoise ==
    LET ch == generateGreenNoise(NoiseLength)
    IN  Generated("green", generatePinkNoise(NoiseLength), ch, ch,
                  NoiseLength)
GenerateWindSound ==
    LET ch == generateWindSound(NaturalSoundLength)
    IN  Generated("wind", ch, ch, ch, NaturalSoundLength)
GenerateRainSound ==
    LET g == generateRainSound(NaturalSoundLength)
    IN  Generated("rain", g.raw, g.filtered, g.channel, g.draws)
GenerateOceanSound ==
    LET g == generateOceanSound(NaturalSoundLength)
    IN  Generated("ocean", g.raw, g.channel, g.channel, NaturalSoundLength)

InitBuffers ==
    /\ InitEngine
    /\ sampleRate \in SampleRates
    /\ pattern \in Patterns
    /\ pos = 0
    /\ generator = "none"
    /\ raw = <<>> /\ filtered = <<>> /\ channel = <<>>
    /\ Mounted([k \in Settings |-> NoItem], FALSE)

NextBuffers ==
    \/ GenerateWhiteNoise
    \/ GeneratePinkNoise
    \/ GenerateBrownNoise
    \/ GenerateGreenNoise
    \/ GenerateWindSound
    \/ GenerateRainSound
    \/ GenerateOceanSound

SpecBuffers == InitBuffers /\ [][NextBuffers]_vars

\* ------------------------------------------------------------------------
\* AudioProvider: one action per callback and one for the completion of
\* loadSettings. React batches the set...State calls of a callback and
\* renders before the next event, so an action ends with the render and
\* with the effects whose dependencies changed. The callbacks of a render
\* read the cells as that render saw them; a setter is created again only
\* when mode or isPlaying changed, and a consumer may still hold the setter
\* of the render before that change (`captured`).
\* ------------------------------------------------------------------------
EngineCtx == [Ctx(0) EXCEPT !.strict = strictParams]

NoEngineCall ==
    UNCHANGED <<engineVars, log, lastCall, threw, bufferVars, aliasVars>>

CallOf(method) == [method |-> method, mode |-> state.mode]

Seen(cells) == [mode |-> cells.mode, isPlaying |-> cells.isPlaying]

\* The save effect of setting k after the render that replaced the cells
\* `old` by `new`: it runs if k or isLoaded changed, and writes if isLoaded.
SaveEffect(k, old, new) ==
    IF new.isLoaded /\ (new[k] # old[k] \/ new.isLoaded # old.isLoaded)
    THEN ToItem(k, new[k])
    ELSE storage[k]

\* The render that follows a change of the cells to `new`, with the effects.
RenderWith(new) ==
    /\ provider' = new
    /\ storage' = [k \in Settings |-> SaveEffect(k, provider, new)]
    /\ captured' = IF Seen(new) # Seen(provider) THEN Seen(provider)
                   ELSE captured
    /\ UNCHANGED <<installed, loading, strictParams>>

\* A control callback: the engine call, then setMode and setIsPlaying unless
\* the engine call threw.
Control(c, name, mode, isPlaying) ==
    /\ CommitEngine(c, name)
    /\ RenderWith(IF c.thrown THEN provider
                  ELSE [provider EXCEPT !.mode = mode,
                                        !.isPlaying = isPlaying])
    /\ called' = CallOf(name)
    /\ UNCHANGED stale

AudioProvider_startBinaural ==
    Control(startBinaural(EngineCtx,
                          [carrier |-> provider.carrier,
                           beat |-> provider.beat,
                           volume |-> provider.volume]),
            "startBinaural", "binaural", TRUE)

AudioProvider_stopBinaural ==
    Control(stopBinaural(EngineCtx), "stopBinaural", "null", FALSE)

\* audioEngine.startNoise({ color: noiseColor, volume }): the two natural
\* sound keys of NoiseParams are absent
AudioProvider_startNoise ==
    Control(startNoise(EngineCtx,
                       [color |-> provider.noiseColor,
                        volume |-> provider.volume,
                        naturalSound |-> Undefined,
                        naturalSoundVolume |-> Undef]),
            "startNoise", "noise", TRUE)

AudioProvider_stopNoise ==
    Control(stopNoise(EngineCtx), "stopNoise", "null", FALSE)

AudioProvider_stop == Control(stop(EngineCtx), "stop", "null", FALSE)

\* The closures a setter can run with: the one of the latest render and the
\* one a consumer kept from the render before.
Closures == {Seen(provider), captured}

\* A setter that calls no engine method.
OnlySet(field, value, seen) ==
    /\ RenderWith([provider EXCEPT ![field] = value])
    /\ NoEngineCall
    /\ called' = [method |-> "none", mode |-> "null"]
    /\ stale' = (stale \/ seen # Seen(provider))

\* A setter that calls updateBinaural with the one key it changes.
SetAndUpdateBinaural(field, value, seen, params) ==
    /\ RenderWith([provider EXCEPT ![field] = value])
    /\ CommitEngine(updateBinaural(EngineCtx, params), "updateBinaural")
    /\ called' = CallOf("updateBinaural")
    /\ stale' = (stale \/ seen # Seen(provider))

\* A setter that calls updateNoise with the one key it changes.
SetAndUpdateNoise(field, value, seen, params) ==
    /\ RenderWith([provider EXCEPT ![field] = value])
    /\ CommitEngine(updateNoise(EngineCtx, params), "updateNoise")
    /\ called' = CallOf("updateNoise")
    /\ stale' = (stale \/ seen # Seen(provider))

NoBinauralKeys == [carrier |-> Undef, beat |-> Undef, volume |-> Undef]
NoNoiseKeys ==
    [color |-> Undefined, volume |-> Undef, naturalSound |-> Undefined,
     naturalSoundVolume |-> Undef]

AudioProvider_setCarrier(value, seen) ==
    IF seen.mode = "binaural" /\ seen.isPlaying
    THEN SetAndUpdateBinaural("carrier", value, seen,
                              [NoBinauralKeys EXCEPT !.carrier = value])
    ELSE OnlySet("carrier", value, seen)

AudioProvider_setBeat(value, seen) ==
    IF seen.mode = "binaural" /\ seen.isPlaying
    THEN SetAndUpdateBinaural("beat", value, seen,
                              [NoBinauralKeys EXCEPT !.beat = value])
    ELSE OnlySet("beat", value, seen)

AudioProvider_setNoiseColor(value, seen) ==
    IF seen.mode = "noise" /\ seen.isPlaying
    THEN SetAndUpdateNoise("noiseColor", value, seen,
                           [NoNoiseKeys EXCEPT !.color = value])
    ELSE OnlySet("noiseColor", value, seen)

AudioProvider_setVolume(value, seen) ==
    IF seen.isPlaying /\ seen.mode = "binaural"
    THEN SetAndUpdateBinaural("volume", value, seen,
                              [NoBinauralKeys EXCEPT !.volume = value])
    ELSE IF seen.isPlaying /\ seen.mode = "noise"
    THEN SetAndUpdateNoise("volume", value, seen,
                           [NoNoiseKeys EXCEPT !.volume = value])
    ELSE OnlySet("volume", value, seen)

AudioProvider_setUiDimness(value) ==
    OnlySet("uiDimness", value, Seen(provider))

AudioProvider_setBackgroundType(value) ==
    OnlySet("backgroundType", value, Seen(provider))

\* The cells after the six set...State calls of loadSettings: a setting
\* whose item is null or empty keeps its value.
Loaded(cells, items) ==
    [f \in DOMAIN cells |->
        IF f \in Settings /\ items[f] # NoItem /\ items[f] # <<"">>
        THEN FromItem(f, items[f]) ELSE cells[f]]

\* loadSettings resumes after `await Promise.all([...getItem...])`: with
\* the six items, or in its catch block when a read was rejected; either
\* way the finally block sets isLoaded. The renders that follow end with
\* isLoaded true, so every save effect runs.
LoadSettings(ok) ==
    /\ loading
    /\ provider' = [(IF ok THEN Loaded(provider, storage) ELSE provider)
                       EXCEPT !.isLoaded = TRUE]
    /\ storage' = [k \in Settings |-> ToItem(k, provider'[k])]
    /\ loading' = FALSE
    /\ called' = [method |-> "none", mode |-> "null"]
    /\ NoEngineCall
    /\ UNCHANGED <<captured, installed, strictParams, stale>>

InitProvider ==
    /\ InitEngine
    /\ sampleRate = 20 /\ pattern = <<500>> /\ pos = 0
    /\ generator = "none"
    /\ raw = <<>> /\ filtered = <<>> /\ channel = <<>>
    /\ \E items \in InstalledItems, strict \in BOOLEAN :
          Mounted(items, strict)

NextProvider ==
    \/ AudioProvider_startBinaural
    \/ AudioProvider_stopBinaural
    \/ AudioProvider_startNoise
    \/ AudioProvider_stopNoise
    \/ AudioProvider_stop
    \/ \E seen \in Closures :
          AudioProvider_setCarrier(ChosenSettings.carrier, seen)
    \/ \E seen \in Closures :
          AudioProvider_setBeat(ChosenSettings.beat, seen)
    \/ \E seen \in Closures :
          AudioProvider_setNoiseColor(ChosenSettings.noiseColor, seen)
    \/ \E seen \in Closures :
          AudioProvider_setVolume(ChosenSettings.volume, seen)
    \/ \E ok \in BOOLEAN : LoadSettings(ok)

SpecProvider == InitProvider /\ [][NextProvider]_vars

\* The settings alone: the six setters and the load, nothing playing.
NextSettings ==
    \/ \E seen \in Closures :
          AudioProvider_setCarrier(ChosenSettings.carrier, seen)
    \/ \E seen \in Closures :
          AudioProvider_setBeat(ChosenSettings.beat, seen)
    \/ \E seen \in Closures :
          AudioProvider_setNoiseColor(ChosenSettings.noiseColor, seen)
    \/ \E seen \in Closures :
          AudioProvider_setVolume(ChosenSettings.volume, seen)
    \/ AudioProvider_setUiDimness(ChosenSettings.uiDimness)
    \/ AudioProvider_setBackgroundType(ChosenSettings.backgroundType)
    \/ \E ok \in BOOLEAN : LoadSettings(ok)

SpecSettings == InitProvider /\ [][NextSettings]_vars

\* ------------------------------------------------------------------------
\* The engine and a caller that keeps the objects it passes and gets.
\* startBinaural and startNoise store the caller's params object itself in
\* state; updateBinaural and updateNoise store a new object made by a
\* spread; getState returns a new object whose mode and isPlaying are
\* copies and whose binauralParams and noiseParams are the objects of
\* state. `shared` names the params objects of state that the caller can
\* reach, and a write of the caller to one of them is a write to state.
\* ------------------------------------------------------------------------
AliasBinauralParams == [carrier : {400, 200}, beat : {10}, volume : {50}]
AliasPartialBinauralParams ==
    [carrier : {Undef}, beat : {Undef, 16}, volume : {Undef}]
AliasNoiseParams ==
    [color : {"white", "pink"}, volume : {50}, naturalSound : {"none"},
     naturalSoundVolume : {80}]
AliasPartialNoiseParams ==
    [color : {Undefined}, volume : {Undef, 70}, naturalSound : {Undefined},
     naturalSoundVolume : {Undef}]

CommitShared(c, name, sh, snap) ==
    /\ CommitFields(c, name)
    /\ shared' = sh
    /\ snapshot' = snap
    /\ UNCHANGED <<bufferVars, providerVars>>

\* this.state.binauralParams = params: the caller's object
KeepStartBinaural(p) ==
    LET c == startBinaural(Ctx(0), p)
    IN  CommitShared(c, "startBinaural",
                     IF c.e.state.mode = "binaural"
                     THEN shared \cup {"binauralParams"} ELSE shared,
                     snapshot)

\* this.state.binauralParams = newParams: an object the caller never sees
KeepUpdateBinaural(p) ==
    CommitShared(updateBinaural(Ctx(0), p), "updateBinaural",
                 IF state.mode = "binaural" /\ state.isPlaying
                 THEN shared \ {"binauralParams"} ELSE shared,
                 snapshot)

KeepStartNoise(p) ==
    LET c == startNoise(Ctx(0), p)
    IN  CommitShared(c, "startNoise",
                     IF c.e.state.mode = "noise"
                     THEN shared \cup {"noiseParams"} ELSE shared,
                     snapshot)

KeepUpdateNoise(p) ==
    CommitShared(updateNoise(Ctx(0), p), "updateNoise",
                 IF state.mode = "noise" /\ state.isPlaying
                 THEN shared \ {"noiseParams"} ELSE shared,
                 snapshot)

KeepStop == CommitShared(stop(Ctx(0)), "stop", shared, snapshot)

\* return { ...this.state }: a shallow copy
KeepGetState ==
    LET c == getState(Ctx(0))
    IN  CommitShared(c, "getState", {"binauralParams", "noiseParams"},
                     [mode |-> c.ret.mode, isPlaying |-> c.ret.isPlaying])

\* The caller assigns to a key of the object that getState returned.
MutateReturned(field, v) ==
    /\ lastCall = "getState"
    /\ snapshot' = [snapshot EXCEPT ![field] = v]
    /\ lastCall' = "mutate"
    /\ log' = <<>>
    /\ threw' = FALSE
    /\ UNCHANGED <<engineVars, shared, bufferVars, providerVars>>

\* The caller assigns to a key of a params object that it passed to a start
\* call or found in the object that getState returned.
MutateParams(which, field, v) ==
    /\ which \in shared
    /\ state' = [state EXCEPT ![which][field] = v]
    /\ lastCall' = "mutate"
    /\ log' = <<>>
    /\ threw' = FALSE
    /\ UNCHANGED <<audioContext, leftOscillator, rightOscillator,
                   binauralGain, leftPanner, rightPanner, noiseSource,
                   noiseGain, noiseBuffers, naturalSoundSource,
                   naturalSoundGain, naturalSoundFilter, naturalSoundLFO,
                   naturalSoundLFOGain, naturalSoundBuffers, mixer,
                   synthCalls, contexts, orphans>>
    /\ UNCHANGED <<shared, snapshot, bufferVars, providerVars>>

NextAlias ==
    \/ \E p \in AliasBinauralParams : KeepStartBinaural(p)
    \/ \E p \in AliasPartialBinauralParams : KeepUpdateBinaural(p)
    \/ \E p \in AliasNoiseParams : KeepStartNoise(p)
    \/ \E p \in AliasPartialNoiseParams : KeepUpdateNoise(p)
    \/ KeepStop
    \/ KeepGetState
    \/ \E v \in {"null", "binaural"} : MutateReturned("mode", v)
    \/ \E v \in {400, 200} : MutateParams("binauralParams", "carrier", v)
    \/ \E v \in {"white", "pink"} : MutateParams("noiseParams", "color", v)

SpecAlias == Init /\ [][NextAlias]_vars

HasEventIn(l, op, node) ==
    \E i \in 1..Len(l) : l[i].op = op /\ l[i].node = node
TouchedIn(l, roles) == \E i \in 1..Len(l) : l[i].node \in roles
HasEvent(op, node) == HasEventIn(log, op, node)
Touched(roles) == TouchedIn(log, roles)
\* Some (op1, node) event of the log comes before some (op2, node) event.
Precedes(op1, op2, node) ==
    \E i, j \in 1..Len(log) :
        /\ i < j
        /\ log[i].op = op1 /\ log[i].node = node
        /\ log[j].op = op2 /\ log[j].node = node
TeardownFirst ==
    \A i, j \in 1..Len(log) :
        (log[i].op \in {"stop", "disconnect", "clear"}
         /\ log[j].op = "create") => i < j
BufferRoles == {"noiseSource", "naturalSoundSource"}

AnyBinauralNode == \E r \in BinauralRoles : Eng[r] # NullNode
AnyNoiseNode == \E r \in NoiseRoles : Eng[r] # NullNode
Idle ==
    /\ state.mode = "null" /\ ~state.isPlaying
    /\ \A r \in Roles : Eng[r] = NullNode

\* C1: after stop(), whatever state it was called in, mode is null,
\* isPlaying is false and every node reference is null; a second stop()
\* issues no graph operation and leaves every engine field as it is.
C1_StopLeavesIdle ==
    lastCall = "stop" =>
        /\ Idle
        /\ stop(Ctx(0)).e = Eng
        /\ stop(Ctx(0)).log = <<>>

\* stop() was called in Noise mode with a natural sound layer running.
C1_Witness ==
    /\ lastCall = "stop"
    /\ HasEvent("stop", "noiseSource")
    /\ HasEvent("stop", "naturalSoundSource")
    /\ HasEvent("disconnect", "mixer")

\* C2: in no reachable state do a binaural node (oscillator, panner,
\* binaural gain) and a noise-mode node (noise player, noise gain, natural
\* sound node, mixer) exist together, referenced or orphaned; binaural nodes
\* exist only in binaural mode and noise-mode nodes only in noise mode.
C2_OneModeAtATime ==
    /\ ~(AnyBinauralNode /\ AnyNoiseNode)
    /\ orphans = {}
    /\ AnyBinauralNode => state.mode = "binaural"
    /\ AnyNoiseNode => state.mode = "noise"

\* startBinaural was called while noise with a natural sound layer played.
C2_Witness ==
    /\ lastCall = "startBinaural"
    /\ HasEvent("clear", "naturalSoundGain")
    /\ Running(leftOscillator) /\ Running(rightOscillator)

\* C3: a start call made in the other mode ends in the requested mode with
\* no node of the previous mode left, and every stop, disconnect and
\* reference clearing of the call comes before its first node creation.
C3_SwitchTearsDownFirst ==
    /\ lastCall = "startBinaural" =>
           state.mode = "binaural" /\ ~AnyNoiseNode /\ TeardownFirst
    /\ lastCall = "startNoise" =>
           state.mode = "noise" /\ ~AnyBinauralNode /\ TeardownFirst

\* startNoise was called in Binaural mode.
C3_Witness ==
    /\ lastCall = "startNoise"
    /\ Precedes("stop", "disconnect", "leftOscillator")
    /\ HasEvent("disconnect", "binauralGain")
    /\ HasEvent("create", "mixer")
    /\ state.mode = "noise"

\* C4: in Binaural mode the left oscillator runs at the recorded carrier
\* and the right oscillator at the recorded carrier plus the recorded beat;
\* an updateBinaural that carries no carrier leaves the left frequency as
\* it was.
C4_FrequenciesFollowParams ==
    /\ [](state.mode = "binaural" =>
            /\ leftOscillator # NullNode /\ rightOscillator # NullNode
            /\ leftOscillator.frequency = state.binauralParams.carrier
            /\ rightOscillator.frequency =
                   state.binauralParams.carrier + state.binauralParams.beat)
    /\ [][\A p \in PartialBinauralParams :
            (state.mode = "binaural" /\ p.carrier = Undef
             /\ UpdateBinaural(p)) =>
                leftOscillator'.frequency = leftOscillator.frequency]_vars

\* startBinaural({400, 10, 0.5}) then updateBinaural({beat: 16}).
C4_Witness ==
    /\ lastCall = "updateBinaural"
    /\ state.mode = "binaural"
    /\ state.binauralParams = [carrier |-> 400, beat |-> 16, volume |-> 50]
    /\ leftOscillator.frequency = 400
    /\ rightOscillator.frequency = 416

\* C5: updateBinaural outside Binaural mode and updateNoise outside Noise
\* mode change no engine field: mode, isPlaying, recorded params, node
\* references and parameters, buffer caches.
C5_UpdateOutsideModeIsNoOp ==
    [][((lastCall' = "updateBinaural" /\ state.mode # "binaural")
        \/ (lastCall' = "updateNoise" /\ state.mode # "noise"))
       => UNCHANGED engineVars]_vars

\* updateNoise was called in Binaural mode and only warned.
C5_Witness ==
    /\ lastCall = "updateNoise"
    /\ state.mode = "binaural"
    /\ log = <<Ev("warn", "Noise mode not active", "")>>

\* C6 (as claimed): an updateNoise that replaces the noise player because
\* the color changed performs no graph operation on the mixer or on a
\* natural sound node.
C6_ColorChangeKeepsTextureAndMixer ==
    (lastCall = "updateNoise" /\ HasEvent("create", "noiseSource")) =>
        ~Touched({"mixer"} \cup TextureRoles)

\* C7: in Noise mode the running noise player holds the cache entry of the
\* recorded color, generated for that color; an updateNoise that changed the
\* color stopped the previous player before creating the new one.
C7_PlayerBackedByRecordedColor ==
    /\ state.mode = "noise" =>
        /\ noiseSource # NullNode
        /\ Running(noiseSource)
        /\ noiseSource.buffer # NoBuffer
        /\ noiseSource.buffer = noiseBuffers[state.noiseParams.color]
        /\ noiseSource.buffer.key = state.noiseParams.color
    /\ (lastCall = "updateNoise" /\ HasEvent("create", "noiseSource")) =>
        /\ Precedes("stop", "create", "noiseSource")
        /\ ~Precedes("create", "stop", "noiseSource")

\* updateNoise({color: 'pink'}) was called while another color played.
C7_Witness ==
    /\ lastCall = "updateNoise"
    /\ Precedes("stop", "create", "noiseSource")
    /\ state.noiseParams.color = "pink"
    /\ noiseSource.buffer.key = "pink"

\* C8: an updateNoise in Noise mode that keeps the color and changes the
\* natural sound performs no graph operation on the noise player, the noise
\* gain or the mixer: the three are the nodes they were, the player still
\* runs, and the natural sound source and gain that existed are released.
C8_TextureChangeKeepsNoise ==
    [][(/\ lastCall' = "updateNoise"
        /\ state.mode = "noise"
        /\ state'.noiseParams.color = state.noiseParams.color
        /\ state'.noiseParams.naturalSound # state.noiseParams.naturalSound)
       => /\ ~TouchedIn(log', {"noiseSource", "noiseGain", "mixer"})
          /\ noiseSource' = noiseSource /\ Running(noiseSource')
          /\ mixer' = mixer
          /\ noiseGain'.outs = noiseGain.outs
          /\ naturalSoundSource # NullNode =>
                 /\ HasEventIn(log', "stop", "naturalSoundSource")
                 /\ HasEventIn(log', "disconnect", "naturalSoundGain")
          /\ state'.noiseParams.naturalSound # "none" =>
                 /\ HasEventIn(log', "create", "naturalSoundSource")
                 /\ HasEventIn(log', "create", "naturalSoundGain")]_vars

\* updateNoise switched from one natural sound to another.
C8_Witness ==
    /\ lastCall = "updateNoise"
    /\ ~HasEvent("create", "noiseSource")
    /\ Precedes("stop", "create", "naturalSoundSource")
    /\ Running(noiseSource) /\ Running(naturalSoundSource)

\* C9: a buffer is assigned only to a player created earlier in the same
\* call and not yet started; every player that is started had its buffer
\* assigned before; no player reference is overwritten while its node is
\* still running or connected.
C9_BufferSetBeforeStart ==
    /\ \A i \in 1..Len(log) :
          log[i].op = "buffer" =>
              \E j \in 1..(i - 1) :
                  /\ log[j].op = "create" /\ log[j].node = log[i].node
                  /\ \A k \in j..i :
                        ~(log[k].op = "start" /\ log[k].node = log[i].node)
    /\ \A i \in 1..Len(log) :
          (log[i].op = "start" /\ log[i].node \in BufferRoles) =>
              \E j \in 1..(i - 1) :
                  log[j].op = "buffer" /\ log[j].node = log[i].node
    /\ \A i \in 1..Len(log) :
          (log[i].op = "create" /\ log[i].node \in BufferRoles) =>
              \A j \in 1..(i - 1) :
                  (log[j].op = "buffer" /\ log[j].node = log[i].node) =>
                      \E k \in (j + 1)..(i - 1) :
                          log[k].op = "stop" /\ log[k].node = log[i].node
    /\ orphans \cap BufferRoles = {}
    /\ \A r \in BufferRoles :
          Running(Eng[r]) => Eng[r].buffer # NoBuffer

\* A running rain layer replaced a wind or other layer within one call.
C9_Witness ==
    /\ lastCall = "updateNoise"
    /\ HasEvent("stop", "naturalSoundSource")
    /\ \E i, j \in 1..Len(log) :
          /\ i < j
          /\ log[i] = Ev("buffer", "naturalSoundSource", "rain")
          /\ log[j] = Ev("start", "naturalSoundSource", "")

\* C10: synthesis has run at most once per noise color and per natural
\* sound kind, and exactly the synthesized keys are cached.
C10_SynthesisAtMostOnce ==
    /\ \A k \in DOMAIN synthCalls : synthCalls[k] <= 1
    /\ \A k \in NoiseColor :
          (synthCalls[k] = 1) <=> (noiseBuffers[k] # NoBuffer)
    /\ \A k \in NaturalSound :
          (synthCalls[k] = 1) <=> (naturalSoundBuffers[k] # NoBuffer)

\* startNoise after a mode switch reused both cached buffers.
C10_Witness ==
    /\ lastCall = "startNoise"
    /\ HasEvent("stop", "leftOscillator")
    /\ HasEvent("start", "noiseSource")
    /\ HasEvent("start", "naturalSoundSource")
    /\ \A i \in 1..Len(log) : log[i].op # "synthesize"

\* C11: a key of either buffer map that holds a buffer holds the same buffer
\* after every control call: no call removes or replaces a cache entry.
C11_CacheAppendOnly ==
    [][/\ \A k \in NoiseColor :
             noiseBuffers[k] # NoBuffer => noiseBuffers'[k] = noiseBuffers[k]
       /\ \A k \in NaturalSound :
             naturalSoundBuffers[k] # NoBuffer =>
                 naturalSoundBuffers'[k] = naturalSoundBuffers[k]]_vars

\* stopNoise tore down a noise bed and a natural sound layer and both
\* buffers are still cached.
C11_Witness ==
    /\ lastCall = "stopNoise"
    /\ HasEvent("stop", "noiseSource")
    /\ HasEvent("stop", "naturalSoundSource")
    /\ \E k \in NoiseColor : noiseBuffers[k] = [key |-> k, gen |-> 1]
    /\ \E k \in NaturalSound :
          naturalSoundBuffers[k] = [key |-> k, gen |-> 1]

C13_OneLiveNodePerRole ==
    [][/\ orphans' = {}
       /\ \A j \in 1..Len(log') :
             log'[j].op = "create" =>
                 LET r == log'[j].node
                 IN  (r \in Roles /\ Eng[r] # NullNode)
                         => \E k \in 1..(j - 1) :
                               /\ log'[k] = Ev("clear", r, "")
                               /\ \E d \in 1..(k - 1) :
                                     /\ log'[d] = Ev("disconnect", r, "")
                                     /\ r \in SourceRoles
                                           => \E s \in 1..(d - 1) :
                                                 log'[s] = Ev("stop", r, "")]_vars

\* A start call replaced a running noise graph with its natural sound layer:
\* every role of the graph got a new node after the old one was torn down.
C13_Witness ==
    /\ lastCall \in {"startNoise", "updateNoise"}
    /\ \A r \in {"noiseSource", "noiseGain", "mixer", "naturalSoundSource",
                 "naturalSoundGain"} :
          /\ HasEvent("disconnect", r)
          /\ HasEvent("create", r)
          /\ Live(Eng[r])

\* C14: in every call, each source node that is torn down is stopped, then
\* disconnected, then its reference is cleared, in that order and with
\* nothing in between; no source is disconnected or cleared in another way.
C14_StopDisconnectClear ==
    \A i \in 1..Len(log) :
        log[i].node \in SourceRoles =>
            /\ log[i].op = "stop" =>
                  /\ i + 2 <= Len(log)
                  /\ log[i + 1] = Ev("disconnect", log[i].node, "")
                  /\ log[i + 2] = Ev("clear", log[i].node, "")
            /\ log[i].op = "disconnect" =>
                  /\ i > 1
                  /\ log[i - 1] = Ev("stop", log[i].node, "")
            /\ log[i].op = "clear" =>
                  /\ i > 2
                  /\ log[i - 1] = Ev("disconnect", log[i].node, "")
                  /\ log[i - 2] = Ev("stop", log[i].node, "")

\* startBinaural tore down a noise bed with its natural sound layer: both
\* buffer players were stopped, and the two new oscillators run.
C14_Witness ==
    /\ lastCall = "startBinaural"
    /\ HasEvent("stop", "noiseSource")
    /\ HasEvent("stop", "naturalSoundSource")
    /\ Running(leftOscillator) /\ Running(rightOscillator)

\* C15 (as claimed): whatever call into the platform fails, no state is
\* reached in which part of a graph exists without the rest: while Idle no
\* node exists, in binaural mode the whole binaural graph runs and no noise
\* node exists, in noise mode the mixer, the noise player and its gain are
\* live, no binaural node exists, and the natural sound player and gain are
\* live exactly when a natural sound is recorded.
C15_NoPartialGraph ==
    /\ state.mode = "null" => \A r \in Roles : Eng[r] = NullNode
    /\ state.mode = "binaural" =>
          /\ \A r \in BinauralRoles : Live(Eng[r])
          /\ Running(leftOscillator) /\ Running(rightOscillator)
          /\ ~AnyNoiseNode
    /\ state.mode = "noise" =>
          /\ \A r \in {"mixer", "noiseGain", "noiseSource"} : Live(Eng[r])
          /\ Running(noiseSource)
          /\ ~AnyBinauralNode
          /\ IF state.noiseParams.naturalSound = "none"
             THEN \A r \in TextureRoles : Eng[r] = NullNode
             ELSE /\ Running(naturalSoundSource)
                  /\ Live(naturalSoundGain)

\* C16: a startBinaural or startNoise call that ends without an audio
\* context has thrown during that call, and it leaves the engine idle with
\* no node created and no graph operation done; the engine is in a mode only
\* when the audio context exists.
C16_NoContextNoMode ==
    [][/\ state'.mode # "null" => audioContext' = "ctx"
       /\ (lastCall' \in {"startBinaural", "startNoise"}
           /\ audioContext' = "null")
             => /\ threw'
                /\ log' = <<>>
                /\ contexts' = 0
                /\ state'.mode = "null" /\ ~state'.isPlaying
                /\ \A r \in Roles : Eng'[r] = NullNode
                /\ UNCHANGED engineVars]_vars

\* startNoise failed because the audio context could not be created.
C16_Witness ==
    /\ lastCall = "startNoise"
    /\ threw
    /\ audioContext = "null"
    /\ Idle

\* C17: in every reachable state getState returns the recorded mode,
\* isPlaying, binauralParams and noiseParams without throwing, and a
\* getState call leaves the state, every node reference with its
\* parameters and both buffer maps as they were, and touches no node.
C17_GetStateReadsOnly ==
    /\ [](LET r == getState(Ctx(0))
          IN  /\ r.ret = state
              /\ r.e = Eng
              /\ ~r.thrown)
    /\ [][lastCall' = "getState" =>
             /\ UNCHANGED engineVars
             /\ log' = <<>>
             /\ ~threw']_vars

\* getState was called while a noise bed with a natural sound layer plays.
C17_Witness ==
    /\ lastCall = "getState"
    /\ state.mode = "noise" /\ state.isPlaying
    /\ Running(noiseSource) /\ Running(naturalSoundSource)

\* C18: an updateBinaural call in binaural mode creates, connects, starts,
\* stops, disconnects and clears nothing: the two oscillators differ from
\* what they were in their frequency at most, the gain in its gain value at
\* most, the two panners and every other node not at all.
C18_UpdateBinauralInPlace ==
    [][(lastCall' = "updateBinaural" /\ state.mode = "binaural"
        /\ state.isPlaying)
          => /\ log' = <<>>
             /\ ~threw'
             /\ leftOscillator' = [leftOscillator EXCEPT
                                      !.frequency = leftOscillator'.frequency]
             /\ rightOscillator' = [rightOscillator EXCEPT
                                      !.frequency = rightOscillator'.frequency]
             /\ binauralGain' = [binauralGain EXCEPT
                                      !.gain = binauralGain'.gain]
             /\ UNCHANGED <<leftPanner, rightPanner>>
             /\ \A r \in NoiseRoles : Eng'[r] = Eng[r]
             /\ \A r \in BinauralRoles : Live(Eng'[r])
             /\ state'.mode = "binaural" /\ state'.isPlaying]_vars

\* updateBinaural retuned the running oscillators to another carrier.
C18_Witness ==
    /\ lastCall = "updateBinaural"
    /\ log = <<>>
    /\ state.mode = "binaural"
    /\ Running(leftOscillator) /\ Running(rightOscillator)
    /\ leftOscillator.frequency = 200
    /\ state.binauralParams.carrier = 200

\* C19: every gain node holds the volume recorded for it (binauralGain the
\* binaural volume, noiseGain the noise volume, naturalSoundGain the natural
\* sound volume), and an updateNoise call in noise mode that keeps the color
\* does no graph operation on the noise player or its gain: the player is
\* left as it is and the gain node differs in its gain value at most.
C19_GainsFollowVolumes ==
    /\ [](/\ binauralGain # NullNode =>
                binauralGain.gain = state.binauralParams.volume
          /\ noiseGain # NullNode =>
                noiseGain.gain = state.noiseParams.volume
          /\ naturalSoundGain # NullNode =>
                naturalSoundGain.gain = state.noiseParams.naturalSoundVolume)
    /\ [][(lastCall' = "updateNoise" /\ state.mode = "noise"
           /\ state.isPlaying
           /\ state'.noiseParams.color = state.noiseParams.color)
             => /\ ~TouchedIn(log', {"noiseSource", "noiseGain"})
                /\ noiseSource' = noiseSource
                /\ noiseGain' = [noiseGain EXCEPT
                                    !.gain = state'.noiseParams.volume]
                /\ Running(noiseSource')]_vars

\* updateNoise changed both volumes of a playing noise bed with a natural
\* sound layer, away from their initial values.
C19_Witness ==
    /\ lastCall = "updateNoise"
    /\ log = <<>>
    /\ Running(noiseSource) /\ Running(naturalSoundSource)
    /\ noiseGain.gain = 70 /\ state.noiseParams.volume = 70
    /\ naturalSoundGain.gain = 30
    /\ state.noiseParams.naturalSoundVolume = 30

C21_StopBinauralKeepsNoise ==
    [][(lastCall' = "stopBinaural" /\ state.mode = "noise")
          => /\ state'.mode = "noise" /\ state'.isPlaying
             /\ state'.noiseParams = state.noiseParams
             /\ log' = <<>>
             /\ \A r \in NoiseRoles : Eng'[r] = Eng[r]
             /\ Running(noiseSource') /\ Connected(mixer')
             /\ state.noiseParams.naturalSound # "none"
                   => Running(naturalSoundSource')]_vars

\* stopBinaural was called while a noise bed with a natural sound layer
\* plays.
C21_Witness ==
    /\ lastCall = "stopBinaural"
    /\ log = <<>>
    /\ state.mode = "noise" /\ state.isPlaying
    /\ Running(noiseSource) /\ Running(naturalSoundSource)
    /\ Connected(mixer)

\* C22: at most one AudioContext is ever constructed: once the engine holds
\* a context no call constructs another or drops it, also after a
\* construction that failed; every node and every cached buffer exists only
\* together with that one context, and every creation of a call is made
\* after the context is there.
C22_SingleContext ==
    /\ [](/\ contexts <= 1
          /\ (audioContext = "ctx") <=> (contexts = 1)
          /\ ((\E r \in Roles : Eng[r] # NullNode)
              \/ (\E k \in NoiseColor : noiseBuffers[k] # NoBuffer)
              \/ (\E k \in NaturalSound : naturalSoundBuffers[k] # NoBuffer))
                => audioContext = "ctx")
    /\ [][/\ audioContext = "ctx" =>
                /\ audioContext' = "ctx"
                /\ contexts' = contexts
                /\ ~HasEventIn(log', "new", "audioContext")
          /\ \A i \in 1..Len(log') :
                log'[i].op \in {"create", "createBuffer"} =>
                    /\ audioContext' = "ctx"
                    /\ audioContext = "null" =>
                          \E j \in 1..(i - 1) :
                              log'[j] = Ev("new", "audioContext", "")]_vars

\* startNoise replaced a playing binaural graph by a noise bed, in the one
\* context the engine made.
C22_Witness ==
    /\ lastCall = "startNoise"
    /\ ~threw
    /\ HasEvent("stop", "leftOscillator")
    /\ Running(noiseSource)
    /\ contexts = 1 /\ audioContext = "ctx"

\* The connections from a source to the output, hop by hop.
DownstreamPath(role) ==
    CASE role = "leftOscillator" ->
             <<<<"leftOscillator", "leftPanner">>,
               <<"leftPanner", "binauralGain">>,
               <<"binauralGain", "destination">>>>
      [] role = "rightOscillator" ->
             <<<<"rightOscillator", "rightPanner">>,
               <<"rightPanner", "binauralGain">>,
               <<"binauralGain", "destination">>>>
      [] role = "noiseSource" ->
             <<<<"noiseSource", "noiseGain">>, <<"noiseGain", "mixer">>,
               <<"mixer", "destination">>>>
      [] role = "naturalSoundSource" ->
             <<<<"naturalSoundSource", "naturalSoundGain">>,
               <<"naturalSoundGain", "mixer">>,
               <<"mixer", "destination">>>>
      [] OTHER -> <<>>

\* C27: when a call starts a source, every hop from that source to the
\* destination is connected already: it was connected earlier in the same
\* call, or it was connected when the call began and the call has not
\* touched its node before the start.
C27_WiredBeforeStart ==
    [][\A i \in 1..Len(log') :
          log'[i].op = "start" =>
              LET path == DownstreamPath(log'[i].node)
              IN  /\ path # <<>>
                  /\ \A h \in 1..Len(path) :
                        \/ \E j \in 1..(i - 1) :
                              /\ log'[j].op = "connect"
                              /\ log'[j].node = path[h][1]
                              /\ log'[j].arg = path[h][2]
                        \/ /\ Eng[path[h][1]] # NullNode
                           /\ path[h][2] \in Eng[path[h][1]].outs
                           /\ \A j \in 1..(i - 1) :
                                 log'[j].node # path[h][1]]_vars

\* updateNoise started a natural sound player into the mixer that the
\* earlier startNoise had connected to the destination.
C27_Witness ==
    /\ lastCall = "updateNoise"
    /\ HasEvent("start", "naturalSoundSource")
    /\ ~Touched({"mixer"})
    /\ Running(naturalSoundSource)
    /\ naturalSoundGain.outs = {"mixer"} /\ mixer.outs = {"destination"}

\* The operations that release a node that is there: a source is stopped,
\* disconnected and cleared, any other node disconnected and cleared.
ReleaseEvents(role) ==
    IF Eng[role] = NullNode THEN <<>>
    ELSE (IF role \in SourceRoles THEN <<Ev("stop", role, "")>> ELSE <<>>)
         \o <<Ev("disconnect", role, ""), Ev("clear", role, "")>>

\* C28: the operations of a stopNoise call are, in this order: release of
\* the noise player, of its gain, of the natural sound player, of its gain
\* (and of the filter and modulator nodes), of the mixer, and last the write
\* of mode = null if the mode was noise; so the mixer is disconnected after
\* both players were stopped and the mode is cleared after every node is
\* released.
C28_StopNoiseOrder ==
    [][lastCall' = "stopNoise" =>
          /\ log' = ReleaseEvents("noiseSource")
                    \o ReleaseEvents("noiseGain")
                    \o ReleaseEvents("naturalSoundSource")
                    \o ReleaseEvents("naturalSoundGain")
                    \o ReleaseEvents("naturalSoundFilter")
                    \o ReleaseEvents("naturalSoundLFO")
                    \o ReleaseEvents("naturalSoundLFOGain")
                    \o ReleaseEvents("mixer")
                    \o (IF state.mode = "noise"
                        THEN <<Ev("mode", "state", "null")>> ELSE <<>>)
          /\ \A r \in NoiseRoles : Eng'[r] = NullNode
          /\ state.mode = "noise" => state'.mode = "null" /\ ~state'.isPlaying
          /\ state.mode # "noise" => state' = state]_vars

\* stopNoise released a noise bed with its natural sound layer and cleared
\* the mode.
C28_Witness ==
    /\ lastCall = "stopNoise"
    /\ Precedes("stop", "disconnect", "noiseSource")
    /\ HasEvent("stop", "naturalSoundSource")
    /\ HasEvent("disconnect", "mixer")
    /\ Len(log) > 0 /\ log[Len(log)] = Ev("mode", "state", "null")
    /\ state.mode = "null"

\* C29: in noise mode the natural sound player and its gain are both live
\* when the recorded natural sound is not none and both null when it is
\* none; a live player loops the buffer that the natural sound map holds
\* for the recorded kind, and that entry is a generated buffer of that kind.
C29_TextureMatchesRecord ==
    state.mode = "noise" =>
        IF state.noiseParams.naturalSound = "none"
        THEN naturalSoundSource = NullNode /\ naturalSoundGain = NullNode
        ELSE /\ Running(naturalSoundSource) /\ Connected(naturalSoundSource)
             /\ Connected(naturalSoundGain)
             /\ naturalSoundSource.buffer =
                    naturalSoundBuffers[state.noiseParams.naturalSound]
             /\ naturalSoundSource.buffer.key =
                    state.noiseParams.naturalSound
             /\ naturalSoundSource.loop

\* updateNoise replaced a wind layer by a rain layer.
C29_Witness ==
    /\ lastCall = "updateNoise"
    /\ Precedes("stop", "start", "naturalSoundSource")
    /\ state.mode = "noise"
    /\ state.noiseParams.naturalSound = "rain"
    /\ naturalSoundSource.buffer.key = "rain"
    /\ naturalSoundBuffers["wind"] # NoBuffer

Abs(x) == IF x < 0 THEN 0 - x ELSE x
NaturalSounds == {"wind", "rain", "ocean"}

\* The linear fade over the first and the last 5% of a channel.
Faded(ch) ==
    LET n == Len(ch)
        cf == crossfadeSamples(n)
    IN  [i \in 1..n |->
            IF i - 1 < cf THEN (ch[i] * (i - 1)) \div cf
            ELSE IF i - 1 >= n - cf THEN (ch[i] * (n - (i - 1))) \div cf
            ELSE ch[i]]

\* C23 (as claimed): a generated wind, rain or ocean channel long enough to
\* have a fade zone begins with a zero sample, and it is the linear fade of
\* the channel the generator had built before its last pass.
C23_NaturalSoundsFaded ==
    (generator \in NaturalSounds /\ crossfadeSamples(Len(channel)) >= 1) =>
        /\ channel[1] = 0
        /\ channel = Faded(IF generator = "ocean" THEN raw ELSE channel)

\* C24 (as claimed): a generated noise channel has the requested number of
\* samples and every sample lies within [-1.5, 1.5].
C24_NoiseSamplesBounded ==
    generator \in NoiseColor =>
        /\ Len(channel) = NoiseLength
        /\ \A i \in 1..Len(channel) : Abs(channel[i]) <= (3 * Unit) \div 2

\* C25 (as claimed): every interior sample of a generated green channel is
\* the mean of the pink sample at its index and the two pink samples next
\* to it.
C25_GreenIsAveragedPink ==
    generator = "green" =>
        /\ Len(channel) = Len(raw)
        /\ \A i \in 2..(Len(channel) - 1) :
              channel[i] = (raw[i - 1] + raw[i] + raw[i + 1]) \div 3

\* C26 (as claimed): at the end of the buffer each of the three sinusoids
\* that modulate a generated ocean channel has turned a whole number of
\* times.
C26_WholeCycles ==
    generator = "ocean" =>
        \A f \in {SwellFreq, WaveFreq, RippleFreq} :
            PhaseDegrees(f, Len(channel), Len(channel)) % 360 = 0

\* C30: the channel that generateRainSound has after its high-pass loop
\* keeps the first white sample and, at every later index, holds the white
\* sample minus 0.95 times the white sample before it (never an already
\* filtered one); the scaling by 0.5 comes after, and when no draw starts a
\* droplet burst the generated channel is that scaled channel.
C30_RainHighPassReadsOriginals ==
    generator = "rain" =>
        /\ Len(raw) = NaturalSoundLength
        /\ Len(filtered) = Len(raw) /\ Len(channel) = Len(raw)
        /\ \A i \in 1..Len(raw) : raw[i] \in {2 * r - Unit : r \in RandomValues}
        /\ filtered[1] = raw[1]
        /\ \A i \in 2..Len(raw) :
              filtered[i] = raw[i] - Mul(raw[i - 1], 9500)
        /\ (\A j \in 1..Len(pattern) : pattern[j] >= 40) =>
              \A i \in 1..Len(raw) : channel[i] = Mul(filtered[i], 5000)

\* Rain was generated from draws that alternate, so that each sample has a
\* neighbour whose filtered value differs from its white value.
C30_Witness ==
    /\ generator = "rain"
    /\ Len(raw) >= 8
    /\ \E i \in 2..(Len(raw) - 1) :
          /\ raw[i] # 0 /\ raw[i - 1] # 0
          /\ filtered[i] # raw[i]
          /\ filtered[i + 1] = raw[i + 1] - Mul(raw[i], 9500)
          /\ filtered[i + 1] # raw[i + 1] - Mul(filtered[i], 9500)

\* C31 (as claimed): at every sample index of a generated wind channel the
\* gust envelope that multiplies the filtered noise lies between 0.3 and
\* 1.0 inclusive.
C31_GustEnvelopeInRange ==
    generator = "wind" =>
        \A i \in 0..(Len(channel) - 1) :
            /\ gustMod(i, Len(channel)) >= (3 * Unit) \div 10
            /\ gustMod(i, Len(channel)) <= Unit

\* Some oscillator or buffer player is started and not yet stopped, whether
\* the engine still holds its reference or has lost it.
AnySourceRunning ==
    \/ \E r \in SourceRoles : Running(Eng[r])
    \/ orphans \cap SourceRoles # {}

C33_StopNoiseKeepsBinaural ==
    [][(lastCall' = "stopNoise" /\ state.mode = "binaural")
          => /\ state'.mode = "binaural" /\ state'.isPlaying
             /\ state'.binauralParams = state.binauralParams
             /\ log' = <<>>
             /\ \A r \in BinauralRoles : Eng'[r] = Eng[r]
             /\ Running(leftOscillator') /\ Running(rightOscillator')
             /\ Connected(leftPanner') /\ Connected(rightPanner')
             /\ Connected(binauralGain')]_vars

\* stopNoise was called while binaural beats play.
C33_Witness ==
    /\ lastCall = "stopNoise"
    /\ log = <<>>
    /\ state.mode = "binaural" /\ state.isPlaying
    /\ Running(leftOscillator) /\ Running(rightOscillator)
    /\ Connected(binauralGain)

\* C34 (as claimed): after any sequence of provider control calls the mode
\* and isPlaying of the provider are those of the engine; stated for a
\* platform that accepts the absent natural sound volume of the provider's
\* startNoise.
C34_ProviderMirrorsEngine ==
    ~strictParams =>
        /\ provider.mode = state.mode
        /\ provider.isPlaying = state.isPlaying

\* C35 (as claimed): whichever closure a setter runs with, the provider
\* calls updateBinaural only while the engine is in binaural mode and
\* updateNoise only while the engine is in noise mode.
C35_UpdatesOnlyInMode ==
    ~strictParams =>
        /\ called.method = "updateBinaural" => called.mode = "binaural"
        /\ called.method = "updateNoise" => called.mode = "noise"

\* C36 (as claimed): no step writes to storage while loadSettings is still
\* waiting, and a setting that storage held at mount is never replaced by
\* the built-in default.
C36_StoredSettingsSurvive ==
    /\ [][storage' # storage => ~loading']_vars
    /\ [](\A k \in Settings :
             installed[k] # NoItem =>
                 storage[k] # ToItem(k, DefaultSettings[k]))

\* C37 (as claimed): while the provider reports isPlaying, the params the
\* engine recorded are the provider's carrier, beat and volume in binaural
\* mode and its noise color and volume in noise mode; stated for runs in
\* which every setter ran with the closure of the latest render.
C37_EngineParamsFollowProvider ==
    (provider.isPlaying /\ ~stale /\ ~strictParams) =>
        /\ provider.mode = "binaural" =>
              state.binauralParams = [carrier |-> provider.carrier,
                                      beat |-> provider.beat,
                                      volume |-> provider.volume]
        /\ provider.mode = "noise" =>
              /\ state.noiseParams.color = provider.noiseColor
              /\ state.noiseParams.volume = provider.volume

\* C38 (as claimed): a write of the caller to an object that getState
\* returned, to one of its nested params objects, or to a params object
\* passed to startBinaural or startNoise, leaves what getState returns as
\* it was.
C38_StateIsolatedFromCallers ==
    [][lastCall' = "mutate" =>
          (getState(Ctx(0)).ret)' = getState(Ctx(0)).ret]_vars

====
